---------------------------- MODULE Spec2Model ----------------------------
(***************************************************************************)
(* A model of the cardiopulmonary simulation core.                         *)
(*                                                                         *)
(* Numbers.  The program computes in IEEE doubles.  The model computes in  *)
(* fixed point: pressures (mmHg), volumes (mL), flows (mL/s), compliances  *)
(* (mL/mmHg) and elastances (mmHg/mL) are integers counting hundredths     *)
(* (CS), resistances count ten-thousandths (RS), dimensionless fractions   *)
(* count thousandths (FS) and times count ticks of 1 ms (TPS per second).  *)
(* With these units every default of CardiovascularParameters and of       *)
(* CardiovascularState is represented exactly.  A true division of the     *)
(* program becomes a division rounded down to the unit (Div).              *)
(***************************************************************************)
EXTENDS Integers, Sequences, FiniteSets, TLC

VARIABLES
    params,     \* the CardiovascularParameters object the caller passes
    state,      \* the CardiovascularState object the caller passes
    HR,         \* heart rate argument (bpm)
    duration,   \* duration argument (ticks)
    dt,         \* time step argument (ticks)
    results,    \* the results dictionary of the running call
    E,          \* activation array E = phi1(t, HR, alpha, n)
    i,          \* loop variable of the time integration
    pc,         \* position of the call: "idle", an index of loop_body, "done"
    reads,      \* <<component, series, offset>> read in the current iteration
    calls,      \* components invoked in the current iteration, in order
    prevCalls,  \* components invoked in the previous iteration, in order
    iters,      \* loop iterations completed by the running call
    ncalls,     \* calls of the entry point started so far
    first,      \* arguments and return value of the first completed call
    snap,       \* the argument objects as they were when the call started
    fn,         \* the last valve law application: site, Pin, Pout, R, flow
    delay_buffer,   \* the list applyDelay keeps for one delayed signal
    D,              \* delay of that signal (ticks)
    delay_dt,       \* time step of the delay line (ticks)
    supplied,       \* every current_value passed to applyDelay, in order
    delayed_value,  \* the value the last applyDelay call returned
    component,  \* class of the component model object: its name, or "none"
    given,      \* keys of the parameter dictionary passed to __init__
    attrs,      \* attributes the object has
    obj,        \* values of the SystemicModel attributes the step uses
    opc,        \* position: "new", "constructed", a statement of
                \* compute_derivatives, "returned", or the exception raised
    args,       \* arguments of the running compute_derivatives call
    loc,        \* local variables of the running compute_derivatives call
    mutated,    \* attributes assigned by compute_derivatives calls so far
    ncd,        \* compute_derivatives calls started so far
    lung,       \* attributes of the LungMechanicsModel object
    lung_t,     \* time the caller passes to its next compute_derivatives
    lung_h,     \* time step the caller passes (ticks)
    lung_out,   \* outputs of its compute_derivatives calls, in order
    ev          \* the last evaluation of a pure function: name, args, ret

simvars == <<params, state, HR, duration, dt, results, E, i, pc, reads,
             calls, prevCalls, iters, ncalls, first, snap>>

valvevars == <<fn>>

delayvars == <<delay_buffer, D, delay_dt, supplied, delayed_value>>

objvars == <<component, given, attrs, obj, opc, args, loc, mutated, ncd>>

lungvars == <<lung, lung_t, lung_h, lung_out>>

evalvars == <<ev>>

vars == <<simvars, valvevars, delayvars, objvars, lungvars, evalvars>>

---------------------------------------------------------------------------
(* Units *)
CS  == 10^2     \* hundredths: pressures, volumes, flows, compliances
RS  == 10^4     \* ten-thousandths: resistances
FS  == 10^3     \* thousandths: dimensionless fractions
TPS == 10^3     \* ticks per second
PS  == 10^6     \* millionths: the numbers inside phi1

(* Bounds of the model *)
MaxSamples == 4     \* longest time vector explored
MaxCalls == 3       \* calls of the entry point in one behaviour

Div(a, b) == a \div b

Max(a, b) == IF a >= b THEN a ELSE b
Min(a, b) == IF a <= b THEN a ELSE b

CeilDiv(a, b) == (a + b - 1) \div b

RECURSIVE SeqSum(_)
SeqSum(s) == IF s = <<>> THEN 0 ELSE Head(s) + SeqSum(Tail(s))

RECURSIVE SeqMax(_)
SeqMax(s) == IF Len(s) = 1 THEN s[1] ELSE Max(Head(s), SeqMax(Tail(s)))

Zeros(n) == [k \in 1..n |-> 0]

---------------------------------------------------------------------------
(* CardiovascularParameters.__init__ : the defaults, in model units *)
DefaultParameters ==
    [Csa |-> 28, Clbp |-> 205, Cubp |-> 167, Clbv |-> 6111, Cubv |-> 5000,
     Cpa |-> 76, Cpp |-> 580, Cpv |-> 2537,
     Rsa |-> 600, Rlbp |-> 13070, Rubp |-> 14070, Rlbv |-> 380, Rubv |-> 160,
     Rpa |-> 230, Rpp |-> 894, Rpv |-> 56,
     Vusa |-> 0, Vulbp |-> 27440, Vuubp |-> 33660, Vulbv |-> 112100,
     Vuubv |-> 137500, Vupa |-> 0, Vupp |-> 22300, Vupv |-> 12000,
     TBV |-> 530000,
     Cla |-> 1923, Vula |-> 2500, Rla |-> 25, Vulv |-> 1677,
     Cra |-> 3125, Vura |-> 2500, Rra |-> 25, Vurv |-> 4080,
     Raov |-> 25, Rmv |-> 0, Rtv |-> 0, Rpulv |-> 25]

(* CardiovascularState.__init__ : the defaults, in model units *)
DefaultState ==
    [Ppv |-> 200, Ppp |-> 200, Ppa |-> 500, Psa |-> 6000, Plbp |-> 1000,
     Plbv |-> 1000, Pubv |-> 900, LAP |-> 600, LVP |-> 500, RAP |-> 500,
     RVP |-> 500, LVV |-> 12000, RVV |-> 12000,
     Qmv |-> 100, Qaov |-> 100, Qpulv |-> 100, Qtv |-> 100]

(* Elastance defaults of the entry point's signature *)
Emaxlv == 270
Eminlv == 6
Emaxrv == 160
Eminrv == 8

(* Activation function parameters set by the entry point: alpha in *)
(* thousandths, the exponents n = [1.9, 21.9] in tenths            *)
alpha1 == 103
alpha2 == 408
n1 == 19
n2 == 219

(* Saturation of the running power: beyond it 1/(1+o) is below a unit. *)
PowCap == 8 * 10^8

---------------------------------------------------------------------------
(* The pure functions of cardiovascular_model.py *)

(* The product of two numbers of phi1, both counted in millionths *)
MulP(a, b) ==
    Div(a, 10^3) * Div(b, 10^3) + Div((a % 10^3) * Div(b, 10^3), 10^3)
      + Div(Div(a, 10^3) * (b % 10^3), 10^3)

(* a * b in millionths, saturating at PowCap *)
SatMulP(a, b) ==
    IF Div(b, 10^3) >= Div(PowCap, Div(a, 10^3) + 1) THEN PowCap
                                                     ELSE Min(PowCap, MulP(a, b))

RECURSIVE Pow(_, _)
(* a ** k in millionths by repeated squaring, saturating at PowCap *)
Pow(a, k) ==
    IF k = 0
    THEN PS
    ELSE IF k % 2 = 0 THEN SatMulP(Pow(a, Div(k, 2)), Pow(a, Div(k, 2)))
                      ELSE SatMulP(Pow(a, k - 1), a)

(* Whether r, counted in ten-thousandths, has r ** 10 <= a *)
RootAtMost(r, a) == Pow(r * 10^2, 10) <= a

(* The largest of base, base + step, ..., base + 31 step that is a tenth *)
(* root of at most a, the first of them being one                        *)
Refine(a, base, step) ==
    base + step * (CHOOSE k \in 0..31 :
                      /\ RootAtMost(base + k * step, a)
                      /\ (k = 31 \/ ~RootAtMost(base + (k + 1) * step, a)))

(* a ** 0.1 in millionths, to four decimals *)
Root10(a) == Refine(a, Refine(a, Refine(a, 0, 1024), 32), 1) * 10^2

(* x / r in millionths *)
DivP(x, r) ==
    IF x < 2 * PS THEN Div(x * 10^3, Div(r, 10^3)) ELSE Div(x, Div(r, 10^3)) * 10^3

(* a ** k / r in millionths, r being a ** 0.1 *)
PowOverRoot(a, k, r) ==
    IF r < 10^3 THEN 0 ELSE Min(PowCap, DivP(Pow(a, k), r))

(* a ** (n / 10) in millionths, for n = 10 k - 1 *)
PowTenths(a, n) == PowOverRoot(a, CeilDiv(n, 10), Root10(a))

(* 1 / (1 + o) in millionths *)
InvOnePlus(o) == Div(10^9, Div(PS + o, 10^3))

(* z = p * q of phi1 at time t (ticks), in millionths *)
phi1_z(t, hr) ==
    LET Tc == Div(60 * TPS, hr)
        tm == t % Tc
        x  == Div(tm * PS, Tc)
        a1 == Div(x * 10^3, alpha1)
        a2 == Div(x * 10^3, alpha2)
        m  == PowTenths(a1, n1)
        o  == PowTenths(a2, n2)
        p  == IF m <= 2 * PS THEN Div(m * 10^3, Div(PS + m, 10^3))
                             ELSE PS - InvOnePlus(m)
        q  == InvOnePlus(o)
    IN  MulP(p, q)

(* En = z / mEn, in thousandths.  NaN (0/0) is the value -1. *)
RECURSIVE Normalised(_, _)
Normalised(z, mEn) ==
    IF z = <<>>
    THEN <<>>
    ELSE Append(Normalised(SubSeq(z, 1, Len(z) - 1), mEn),
                IF mEn = 0 THEN -1 ELSE Div(z[Len(z)] * FS, mEn))

RECURSIVE phi1_zs(_, _, _)
(* z of phi1 over the first n samples of the time vector <<0, h, 2h, ...>> *)
phi1_zs(n, h, hr) ==
    IF n = 0 THEN <<>> ELSE Append(phi1_zs(n - 1, h, hr), phi1_z((n - 1) * h, hr))

(* phi1 over the time vector t = <<0, h, 2h, ...>> of n samples *)
phi1(n, h, hr) ==
    Normalised(phi1_zs(n, h, hr), SeqMax(phi1_zs(n, h, hr)))

HRChoices == {75, 120}
DtChoices == {1, 2}

(* E = phi1(t, HR, alpha, n), for every time vector and heart rate explored *)
ActivationTable ==
    [n \in 1..MaxSamples, h \in DtChoices, hr \in HRChoices |-> phi1(n, h, hr)]

valves_backflow(Pin, Pout, R) == Div((Pin - Pout) * RS, R)

valves(Pin, Pout, R) ==
    IF Pin <= Pout THEN 0 ELSE Div((Pin - Pout) * RS, R)

(* ventricle returns <<V, P>> *)
(* HeartModel.valveFlow *)
valveFlow(Pin, Pout, R) ==
    IF Pin > Pout THEN Div((Pin - Pout) * RS, R) ELSE 0

(* The four valve flows of the loop: the pressures and resistance each passes *)
Qmv(p, LAP, LVP) == valves(LAP, LVP, p.Rla + p.Rmv)
Qaov(p, LVP, Psa) == valves(LVP, Psa, p.Raov)
Qtv(p, RAP, RVP) == valves(RAP, RVP, p.Rra + p.Rtv)
Qpulv(p, RVP, Ppa) == valves(RVP, Ppa, p.Rpulv)

ventricle(Emax, Emin, En, Vold, Vu, Fin, Fout, h) ==
    LET V   == Vold + Div((Fin - Fout) * h, TPS)
        ESP == Div(Emax * (V - Vu), CS)
        EDP == Div(Emin * (V - Vu), CS)
        P   == Div(En * ESP + (FS - En) * EDP, FS)
    IN  <<V, P>>

left_atrium(Ppv, LAP, Rpv, Fmv, Cla) ==
    LET Fin == Div((Ppv - LAP) * RS, Rpv)
    IN  Div((Fin - Fmv) * CS, Cla)

right_atrium(Plbv, Pubv, RAP, Rlbv, Rubv, Ftv, Cra) ==
    LET Fin == Div((Plbv - RAP) * RS, Rlbv) + Div((Pubv - RAP) * RS, Rubv)
    IN  Div((Fin - Ftv) * CS, Cra)

systemic_artery_RC(Fin, Psa, Psp, Rsa, Csa) ==
    Div((Fin - Div((Psa - Psp) * RS, Rsa)) * CS, Csa)

systemic_peripheral_RC(Psa, Plbp, Plbv, Pubv, Rsa, Rlbp, Rubp, Clbp, Cubp) ==
    LET f1   == Div((Plbp - Plbv) * RS, Rlbp)
        f2   == Div((Plbp - Pubv) * RS, Rubp)
        Fout == f1 + f2
        Fin  == Div((Psa - Plbp) * RS, Rsa)
    IN  Div((Fin - Fout) * CS, Clbp + Cubp)

extrasplanchnic_venous(Psp, Pev, Pra, dVuev, Rep, Rev, Cev) ==
    LET Fin  == Div((Psp - Pev) * RS, Rep)
        f1   == Div((Pev - Pra) * RS, Rev)
        Fout == f1 + dVuev
    IN  Div((Fin - Fout) * CS, Cev)

pulmonary_artery_RC(Fin, Ppa, Ppp, Rpa, Cpa) ==
    LET Fout == Div((Ppa - Ppp) * RS, Rpa)
    IN  Div((Fin - Fout) * CS, Cpa)

pulmonary_peripheral_RC(Ppa, Ppp, Ppv, Rpa, Rpp, Cpp) ==
    LET Fin  == Div((Ppa - Ppp) * RS, Rpa)
        Fout == Div((Ppp - Ppv) * RS, Rpp)
    IN  Div((Fin - Fout) * CS, Cpp)

pulmonary_veins(Ppp, Ppv, Pla, Rpp, Rpv, Cpv) ==
    LET Fin  == Div((Ppp - Ppv) * RS, Rpp)
        Fout == Div((Ppv - Pla) * RS, Rpv)
    IN  Div((Fin - Fout) * CS, Cpv)

splanchnic_venous(TBV, Vsv, Csv) == Div((TBV - Vsv) * CS, Csv)

(* x + dx * dt, the explicit Euler update *)
Euler(x, dx, h) == x + Div(dx * h, TPS)

---------------------------------------------------------------------------
(* simulate_cardiovascular_system: the arguments the model explores *)

(* A second parameter object: stiffer valves and a smaller blood volume *)
StenoticParameters ==
    [DefaultParameters EXCEPT !.Raov = 500, !.Rpulv = 500, !.Rmv = 200,
                              !.TBV = 500000]

(* A second initial state: low arterial pressures and full atria, so that *)
(* all four valves open within the first samples                          *)
OpenValveState ==
    [DefaultState EXCEPT !.Psa = 300, !.Ppa = 200, !.LAP = 1500, !.RAP = 1400]

(* A third initial state: both ventricles hold less than their unstressed  *)
(* volume (Vulv = 16.77 mL, Vurv = 40.8 mL)                                *)
DepletedState == [DefaultState EXCEPT !.LVV = 1000, !.RVV = 3000]

ParameterChoices == {DefaultParameters, StenoticParameters}
StateChoices == {DefaultState, OpenValveState, DepletedState}
(* A multiple of dt, and a duration that is no multiple of dt when dt > 1 *)
DurationChoices(h) == {(MaxSamples - 1) * h, MaxSamples * h - (h - 1)}

SeriesNames ==
    {"LAP", "RAP", "LVV", "LVP", "RVV", "RVP", "Psa", "Plbp", "Plbv", "Pubv",
     "Ppa", "Ppp", "Ppv", "Qmv", "Qaov", "Qtv", "Qpulv", "Vu", "Vlbv"}

(* The series whose sample 0 is set from the state object *)
InitialConditions ==
    {"LAP", "RAP", "LVV", "LVP", "RVV", "RVP", "Psa", "Plbp", "Plbv", "Pubv",
     "Ppa", "Ppp", "Ppv", "Qmv", "Qaov", "Qtv", "Qpulv"}

arange_floor(stop, h) == [k \in 1..(stop \div h) |-> (k - 1) * h]

(* t = np.arange(0, duration, dt); n_steps = len(t) *)
arange(stop, h) == [k \in 1..CeilDiv(stop, h) |-> (k - 1) * h]

n_steps == Len(results.time)

(* The results dictionary after "Set initial conditions" *)
NewResults(st, stop, h) ==
    LET n == Len(arange(stop, h))
    IN  [name \in SeriesNames \cup {"time"} |->
           IF name = "time" THEN arange(stop, h)
           ELSE IF name \in InitialConditions
                THEN [Zeros(n) EXCEPT ![1] = st[name]]
                ELSE Zeros(n)]

(* The statements of one loop iteration, in program order *)
loop_body_skip ==
    <<"left_atrium", "right_atrium", "left_ventricle", "right_ventricle",
      "systemic_artery_RC", "systemic_peripheral_RC",
      "pulmonary_artery_RC", "pulmonary_peripheral_RC", "pulmonary_veins",
      "unstressed_volume", "splanchnic_venous", "valves">>

loop_body ==
    <<"left_atrium", "right_atrium", "left_ventricle", "right_ventricle",
      "systemic_artery_RC", "systemic_peripheral_RC", "extrasplanchnic_venous",
      "pulmonary_artery_RC", "pulmonary_peripheral_RC", "pulmonary_veins",
      "unstressed_volume", "splanchnic_venous", "valves">>

PosOf(c) == CHOOSE k \in 1..Len(loop_body) : loop_body[k] = c

(* range(n_steps - 1): what follows statement c of iteration i *)
AfterStatement(c) ==
    IF PosOf(c) < Len(loop_body) THEN loop_body[PosOf(c) + 1]
    ELSE IF i + 1 < n_steps - 1 THEN loop_body[1] ELSE "done"

(* Element references results[name][i + off] of each statement: off = 0   *)
(* is index i, off = 1 is index i+1                                       *)
left_atrium_refs == << <<"Ppv", 0>>, <<"LAP", 0>>, <<"Qmv", 0>> >>
right_atrium_refs ==
    << <<"Plbv", 0>>, <<"Pubv", 0>>, <<"RAP", 0>>, <<"Qtv", 0>> >>
left_ventricle_refs == << <<"LVV", 0>>, <<"Qmv", 0>>, <<"Qaov", 0>> >>
right_ventricle_refs == << <<"RVV", 0>>, <<"Qtv", 0>>, <<"Qpulv", 0>> >>
systemic_artery_refs == << <<"Qaov", 0>>, <<"Psa", 0>>, <<"Plbp", 0>> >>
systemic_peripheral_refs_GS ==
    << <<"Psa", 1>>, <<"Plbp", 0>>, <<"Plbv", 0>>, <<"Pubv", 0>> >>
systemic_peripheral_refs ==
    << <<"Psa", 0>>, <<"Plbp", 0>>, <<"Plbv", 0>>, <<"Pubv", 0>> >>
upper_body_venous_refs == << <<"Plbp", 0>>, <<"Pubv", 0>>, <<"RAP", 0>> >>
pulmonary_artery_refs == << <<"Qpulv", 0>>, <<"Ppa", 0>>, <<"Ppp", 0>> >>
pulmonary_peripheral_refs == << <<"Ppa", 0>>, <<"Ppp", 0>>, <<"Ppv", 0>> >>
pulmonary_veins_refs == << <<"Ppp", 0>>, <<"Ppv", 0>>, <<"LAP", 0>> >>
splanchnic_venous_refs ==
    << <<"Psa", 1>>, <<"Plbp", 1>>, <<"Pubv", 1>>, <<"RAP", 1>>, <<"RVV", 1>>,
       <<"Ppa", 1>>, <<"Ppp", 1>>, <<"Ppv", 1>>, <<"LAP", 1>>, <<"LVV", 1>>,
       <<"Vu", 1>> >>
valves_refs ==
    << <<"LAP", 1>>, <<"LVP", 1>>, <<"Psa", 1>>, <<"RAP", 1>>, <<"RVP", 1>>,
       <<"Ppa", 1>> >>

(* The values the references denote in the current iteration *)
Rd(refs) == [k \in 1..Len(refs) |-> results[refs[k][1]][i + 1 + refs[k][2]]]

(* results[name][i+1] = v *)
Put(res, name, v) == [res EXCEPT ![name][i + 2] = v]

(* Bookkeeping of a statement: what it read, that it ran, where control goes *)
Invoke(c, names, refs) ==
    LET fresh == (c = loop_body[1])
        last  == (PosOf(c) = Len(loop_body))
    IN  /\ reads' = (IF fresh THEN {} ELSE reads)
                      \cup {<<c, refs[k][1], refs[k][2]>> : k \in 1..Len(refs)}
        /\ calls' = (IF fresh THEN <<>> ELSE calls) \o names
        /\ prevCalls' = IF fresh THEN calls ELSE prevCalls
        /\ pc' = AfterStatement(c)
        /\ i' = IF last THEN i + 1 ELSE i
        /\ iters' = IF last THEN iters + 1 ELSE iters
        /\ UNCHANGED <<HR, duration, dt, E, ncalls, first, snap>>
        /\ UNCHANGED <<valvevars, delayvars, objvars, lungvars, evalvars>>

---------------------------------------------------------------------------
(* simulate_cardiovascular_system: the call, the loop statements, the return *)

Call ==
    /\ pc = "idle"
    /\ ncalls < MaxCalls
    /\ \E p \in ParameterChoices, st \in StateChoices, hr \in HRChoices,
          h \in DtChoices :
         \E stop \in DurationChoices(h) :
            /\ params' = p
            /\ state' = st
            /\ HR' = hr
            /\ dt' = h
            /\ duration' = stop
            /\ snap' = [params |-> p, state |-> st]
            /\ results' = NewResults(st, stop, h)
            /\ E' = ActivationTable[Len(arange(stop, h)), h, hr]
            /\ pc' = IF 0 < Len(arange(stop, h)) - 1 THEN loop_body[1] ELSE "done"
    /\ i' = 0
    /\ iters' = 0
    /\ reads' = {}
    /\ calls' = <<>>
    /\ prevCalls' = <<>>
    /\ ncalls' = ncalls + 1
    /\ UNCHANGED <<first, valvevars, delayvars, objvars, lungvars, evalvars>>

StepLeftAtrium_writeback ==
    /\ pc = "left_atrium"
    /\ LET a    == Rd(left_atrium_refs)
           dPla == left_atrium(a[1], a[2], params.Rpv, a[3], params.Cla)
       IN  /\ results' = Put(results, "LAP", Euler(a[2], dPla, dt))
           /\ state' = [state EXCEPT !.LAP = Euler(a[2], dPla, dt)]
    /\ Invoke("left_atrium", <<"left_atrium">>, left_atrium_refs)
    /\ UNCHANGED params

StepLeftAtrium ==
    /\ pc = "left_atrium"
    /\ LET a    == Rd(left_atrium_refs)
           dPla == left_atrium(a[1], a[2], params.Rpv, a[3], params.Cla)
       IN  results' = Put(results, "LAP", Euler(a[2], dPla, dt))
    /\ Invoke("left_atrium", <<"left_atrium">>, left_atrium_refs)
    /\ UNCHANGED <<params, state>>

StepRightAtrium ==
    /\ pc = "right_atrium"
    /\ LET a    == Rd(right_atrium_refs)
           dPra == right_atrium(a[1], a[2], a[3], params.Rlbv, params.Rubv,
                                a[4], params.Cra)
       IN  results' = Put(results, "RAP", Euler(a[3], dPra, dt))
    /\ Invoke("right_atrium", <<"right_atrium">>, right_atrium_refs)
    /\ UNCHANGED <<params, state>>

StepLeftVentricle ==
    /\ pc = "left_ventricle"
    /\ LET a  == Rd(left_ventricle_refs)
           VP == ventricle(Emaxlv, Eminlv, E[i + 1], a[1], params.Vulv,
                           a[2], a[3], dt)
       IN  results' = Put(Put(results, "LVV", VP[1]), "LVP", VP[2])
    /\ Invoke("left_ventricle", <<"left_ventricle">>, left_ventricle_refs)
    /\ UNCHANGED <<params, state>>

StepRightVentricle ==
    /\ pc = "right_ventricle"
    /\ LET a  == Rd(right_ventricle_refs)
           VP == ventricle(Emaxrv, Eminrv, E[i + 1], a[1], params.Vurv,
                           a[2], a[3], dt)
       IN  results' = Put(Put(results, "RVV", VP[1]), "RVP", VP[2])
    /\ Invoke("right_ventricle", <<"right_ventricle">>, right_ventricle_refs)
    /\ UNCHANGED <<params, state>>

StepSystemicArtery ==
    /\ pc = "systemic_artery_RC"
    /\ LET a    == Rd(systemic_artery_refs)
           dPsa == systemic_artery_RC(a[1], a[2], a[3], params.Rsa, params.Csa)
       IN  results' = Put(results, "Psa", Euler(results.Psa[i + 1], dPsa, dt))
    /\ Invoke("systemic_artery_RC", <<"systemic_artery_RC">>,
              systemic_artery_refs)
    /\ UNCHANGED <<params, state>>

StepSystemicPeripheral ==
    /\ pc = "systemic_peripheral_RC"
    /\ LET a     == Rd(systemic_peripheral_refs)
           dPlbp == systemic_peripheral_RC(a[1], a[2], a[3], a[4], params.Rsa,
                        params.Rlbp, params.Rubp, params.Clbp, params.Cubp)
       IN  results' = Put(results, "Plbp", Euler(results.Plbp[i + 1], dPlbp, dt))
    /\ Invoke("systemic_peripheral_RC", <<"systemic_peripheral_RC">>,
              systemic_peripheral_refs)
    /\ UNCHANGED <<params, state>>

StepUpperBodyVenous ==
    /\ pc = "extrasplanchnic_venous"
    /\ LET a     == Rd(upper_body_venous_refs)
           dPubv == extrasplanchnic_venous(a[1], a[2], a[3], 0, params.Rubp,
                                           params.Rubv, params.Cubv)
       IN  results' = Put(results, "Pubv", Euler(results.Pubv[i + 1], dPubv, dt))
    /\ Invoke("extrasplanchnic_venous", <<"extrasplanchnic_venous">>,
              upper_body_venous_refs)
    /\ UNCHANGED <<params, state>>

StepPulmonaryArtery ==
    /\ pc = "pulmonary_artery_RC"
    /\ LET a    == Rd(pulmonary_artery_refs)
           dPpa == pulmonary_artery_RC(a[1], a[2], a[3], params.Rpa, params.Cpa)
       IN  results' = Put(results, "Ppa", Euler(results.Ppa[i + 1], dPpa, dt))
    /\ Invoke("pulmonary_artery_RC", <<"pulmonary_artery_RC">>,
              pulmonary_artery_refs)
    /\ UNCHANGED <<params, state>>

StepPulmonaryPeripheral ==
    /\ pc = "pulmonary_peripheral_RC"
    /\ LET a    == Rd(pulmonary_peripheral_refs)
           dPpp == pulmonary_peripheral_RC(a[1], a[2], a[3], params.Rpa,
                                           params.Rpp, params.Cpp)
       IN  results' = Put(results, "Ppp", Euler(results.Ppp[i + 1], dPpp, dt))
    /\ Invoke("pulmonary_peripheral_RC", <<"pulmonary_peripheral_RC">>,
              pulmonary_peripheral_refs)
    /\ UNCHANGED <<params, state>>

StepPulmonaryVeins ==
    /\ pc = "pulmonary_veins"
    /\ LET a    == Rd(pulmonary_veins_refs)
           dPpv == pulmonary_veins(a[1], a[2], a[3], params.Rpp, params.Rpv,
                                   params.Cpv)
       IN  results' = Put(results, "Ppv", Euler(results.Ppv[i + 1], dPpv, dt))
    /\ Invoke("pulmonary_veins", <<"pulmonary_veins">>, pulmonary_veins_refs)
    /\ UNCHANGED <<params, state>>

(* results['Vu'][i+1]: the sum of the unstressed volumes *)
UnstressedVolume(p) ==
    p.Vusa + p.Vulbp + p.Vuubp + p.Vulbv + p.Vuubv + p.Vura + p.Vupa
      + p.Vupp + p.Vupv + p.Vula

StepUnstressedVolume ==
    /\ pc = "unstressed_volume"
    /\ results' = Put(results, "Vu", UnstressedVolume(params))
    /\ Invoke("unstressed_volume", <<>>, <<>>)
    /\ UNCHANGED <<params, state>>

(* results['Vlbv'][i+1]: the volume of every compartment but the lower-body *)
(* veins, from the values a = Rd(splanchnic_venous_refs)                    *)
OtherVolumes(p, a) ==
    Div(p.Csa * a[1], CS) + Div((p.Clbp + p.Cubp) * a[2], CS)
      + Div(p.Cubv * a[3], CS) + Div(p.Cra * a[4], CS) + a[5]
      + Div(p.Cpa * a[6], CS) + Div(p.Cpp * a[7], CS) + Div(p.Cpv * a[8], CS)
      + Div(p.Cla * a[9], CS) + a[10] + a[11]

StepSplanchnicVenous ==
    /\ pc = "splanchnic_venous"
    /\ LET Vlbv == OtherVolumes(params, Rd(splanchnic_venous_refs))
       IN  results' = Put(Put(results, "Vlbv", Vlbv), "Plbv",
                          splanchnic_venous(params.TBV, Vlbv, params.Clbv))
    /\ Invoke("splanchnic_venous", <<"splanchnic_venous">>,
              splanchnic_venous_refs)
    /\ UNCHANGED <<params, state>>

StepValves ==
    /\ pc = "valves"
    /\ LET a == Rd(valves_refs)
       IN  results' =
             Put(Put(Put(Put(results,
                 "Qmv", Qmv(params, a[1], a[2])),
                 "Qaov", Qaov(params, a[2], a[3])),
                 "Qtv", Qtv(params, a[4], a[5])),
                 "Qpulv", Qpulv(params, a[5], a[6]))
    /\ Invoke("valves", <<"mitral", "aortic", "tricuspid", "pulmonary">>,
              valves_refs)
    /\ UNCHANGED <<params, state>>

(* return results: the caller keeps the first return value to compare *)
Return ==
    /\ pc = "done"
    /\ pc' = "idle"
    /\ first' = IF first = <<>>
                THEN <<[args |-> <<snap.params, snap.state, HR, duration, dt>>,
                        ret  |-> results]>>
                ELSE first
    /\ UNCHANGED <<params, state, HR, duration, dt, results, E, i, reads,
                   calls, prevCalls, iters, ncalls, snap>>
    /\ UNCHANGED <<valvevars, delayvars, objvars, lungvars, evalvars>>

(* No call of the entry point has been made *)
SimIdle ==
    /\ params = DefaultParameters
    /\ state = DefaultState
    /\ HR = 75
    /\ duration = 0
    /\ dt = 1
    /\ results = [name \in SeriesNames \cup {"time"} |-> <<>>]
    /\ E = <<>>
    /\ i = 0
    /\ pc = "idle"
    /\ reads = {}
    /\ calls = <<>>
    /\ prevCalls = <<>>
    /\ iters = 0
    /\ ncalls = 0
    /\ first = <<>>
    /\ snap = [params |-> DefaultParameters, state |-> DefaultState]

(* No valve law has been applied *)
ValveIdle == fn = [site |-> "none", Pin |-> 0, Pout |-> 0, R |-> RS, F |-> 0]

(* No delay line exists *)
DelayIdle ==
    /\ delay_buffer = <<>>
    /\ D = 0
    /\ delay_dt = 1
    /\ supplied = <<>>
    /\ delayed_value = 0

(* No component model object has been constructed. *)
ObjIdle ==
    /\ component = "none"
    /\ given = {}
    /\ attrs = {}
    /\ obj = <<>>
    /\ opc = "new"
    /\ args = <<>>
    /\ loc = <<>>
    /\ mutated = {}
    /\ ncd = 0

(* No LungMechanicsModel has been constructed. *)
LungIdle ==
    /\ lung = <<>>
    /\ lung_t = 0
    /\ lung_h = 0
    /\ lung_out = <<>>

(* No pure function has been evaluated. *)
EvalIdle == ev = [name |-> "none", args |-> <<>>, ret |-> <<>>]

Init ==
    SimIdle /\ ValveIdle /\ DelayIdle /\ ObjIdle /\ LungIdle /\ EvalIdle

Next ==
    \/ Call
    \/ StepLeftAtrium
    \/ StepRightAtrium
    \/ StepLeftVentricle
    \/ StepRightVentricle
    \/ StepSystemicArtery
    \/ StepSystemicPeripheral
    \/ StepUpperBodyVenous
    \/ StepPulmonaryArtery
    \/ StepPulmonaryPeripheral
    \/ StepPulmonaryVeins
    \/ StepUnstressedVolume
    \/ StepSplanchnicVenous
    \/ StepValves
    \/ Return

Spec == Init /\ [][Next]_vars

---------------------------------------------------------------------------
(* Properties of simulate_cardiovascular_system *)

(* The statements that integrate a state: each computes a derivative (the  *)
(* ventricles a net flow) and advances one state from index i to i+1       *)
IntegratingStatements ==
    {"left_atrium", "right_atrium", "left_ventricle", "right_ventricle",
     "systemic_artery_RC", "systemic_peripheral_RC", "extrasplanchnic_venous",
     "pulmonary_artery_RC", "pulmonary_peripheral_RC", "pulmonary_veins"}

(* C1: within an iteration, every value read by a statement that integrates *)
(* a state (LAP, RAP, LVV, RVV, Psa, Plbp, Pubv, Ppa, Ppp, Ppv) is a value  *)
(* at index i; none is a value at index i+1 written in the same iteration.  *)
C1_NoPartialRead ==
    \A r \in reads : r[1] \in IntegratingStatements => r[3] = 0

(* C1 witness: the peripheral statement has run in a second iteration, after *)
(* Psa[i+1] was written with a value other than Psa[i]                       *)
C1_Witness ==
    /\ pc = "extrasplanchnic_venous"
    /\ i >= 1
    /\ <<"systemic_peripheral_RC", "Psa", 0>> \in reads
    /\ results.Psa[i + 2] # results.Psa[i + 1]

(* Samples 1..i+1 (indices 0..i) of the running or finished call are final *)
RecordedSamples == IF pc = "idle" /\ ncalls = 0 THEN {} ELSE 1..(i + 1)

(* The blood volume held in all compartments at sample k *)
TotalVolume(p, res, k) ==
    OtherVolumes(p, <<res.Psa[k], res.Plbp[k], res.Pubv[k], res.RAP[k],
                      res.RVV[k], res.Ppa[k], res.Ppp[k], res.Ppv[k],
                      res.LAP[k], res.LVV[k], UnstressedVolume(p)>>)
      + Div(p.Clbv * res.Plbv[k], CS)

(* Rounding of the closing division and of the product that inverts it *)
VolumeTolerance(p) == Div(p.Clbv, CS) + 1

Conserved(k) ==
    LET d == TotalVolume(params, results, k) - params.TBV
    IN  -VolumeTolerance(params) <= d /\ d <= VolumeTolerance(params)

(* C3: at every recorded sample the compartment volumes sum to TBV *)
C3_VolumeConserved == \A k \in RecordedSamples : Conserved(k)

(* The components of one iteration *)
Components ==
    IntegratingStatements
      \cup {"splanchnic_venous", "mitral", "aortic", "tricuspid", "pulmonary"}

Count(seq, c) == Cardinality({k \in 1..Len(seq) : seq[k] = c})

IterationComplete == iters > 0 /\ pc \in {loop_body[1], "done"}

(* C5: an iteration invokes every component exactly once, and every *)
(* iteration invokes them in the order of the iteration before it   *)
C5_OncePerStepInFixedOrder ==
    IterationComplete =>
        /\ \A c \in Components : Count(calls, c) = 1
        /\ Len(calls) = Cardinality(Components)
        /\ (iters >= 2 => calls = prevCalls)

(* C5 witness: a second iteration has completed *)
C5_Witness == IterationComplete /\ iters >= 2 /\ Len(calls) > 0

CallArgs == <<snap.params, snap.state, HR, duration, dt>>

(* C6: a call leaves the parameter and state objects as it got them, and a *)
(* call whose arguments equal those of the first call returns what the     *)
(* first call returned, whatever calls were made since                     *)
C6_PureEntryPoint ==
    /\ (pc # "idle" => params = snap.params /\ state = snap.state)
    /\ (pc = "done" /\ first # <<>> /\ first[1].args = CallArgs
          => results = first[1].ret)

(* C6 witness: a later call with the arguments of the first has finished *)
C6_Witness ==
    /\ pc = "done"
    /\ ncalls >= 2
    /\ first # <<>>
    /\ first[1].args = CallArgs
    /\ iters >= 2

RequiredKeys ==
    {"time", "LVP", "RVP", "LVV", "RVV", "Psa", "Ppa", "LAP", "RAP",
     "Qmv", "Qaov", "Qtv", "Qpulv"}

SeriesComplete ==
    /\ RequiredKeys \subseteq DOMAIN results
    /\ \A name \in DOMAIN results : Len(results[name]) = Len(results.time)

---------------------------------------------------------------------------
(* The valve law applied to pressures drawn from a bounded set *)

MaxValvePressure == 4

ValvePressures == {k * 250 : k \in (-1)..MaxValvePressure}

ValveResistances ==
    {p.Raov : p \in ParameterChoices} \cup {p.Rla + p.Rmv : p \in ParameterChoices}

Applied(site, Pin, Pout, R, F) ==
    [site |-> site, Pin |-> Pin, Pout |-> Pout, R |-> R, F |-> F]

Mitral ==
    /\ \E p \in ParameterChoices, LAP \in ValvePressures, LVP \in ValvePressures :
         fn' = Applied("Qmv", LAP, LVP, p.Rla + p.Rmv, Qmv(p, LAP, LVP))
    /\ UNCHANGED <<simvars, delayvars, objvars, lungvars, evalvars>>

Aortic ==
    /\ \E p \in ParameterChoices, LVP \in ValvePressures, Psa \in ValvePressures :
         fn' = Applied("Qaov", LVP, Psa, p.Raov, Qaov(p, LVP, Psa))
    /\ UNCHANGED <<simvars, delayvars, objvars, lungvars, evalvars>>

Tricuspid ==
    /\ \E p \in ParameterChoices, RAP \in ValvePressures, RVP \in ValvePressures :
         fn' = Applied("Qtv", RAP, RVP, p.Rra + p.Rtv, Qtv(p, RAP, RVP))
    /\ UNCHANGED <<simvars, delayvars, objvars, lungvars, evalvars>>

Pulmonary ==
    /\ \E p \in ParameterChoices, RVP \in ValvePressures, Ppa \in ValvePressures :
         fn' = Applied("Qpulv", RVP, Ppa, p.Rpulv, Qpulv(p, RVP, Ppa))
    /\ UNCHANGED <<simvars, delayvars, objvars, lungvars, evalvars>>

HeartValveFlow ==
    /\ \E R \in ValveResistances, Pin \in ValvePressures, Pout \in ValvePressures :
         fn' = Applied("valveFlow", Pin, Pout, R, valveFlow(Pin, Pout, R))
    /\ UNCHANGED <<simvars, delayvars, objvars, lungvars, evalvars>>

NextValve ==
    \/ Mitral
    \/ Aortic
    \/ Tricuspid
    \/ Pulmonary
    \/ HeartValveFlow

SpecValve == Init /\ [][NextValve]_vars

(* C4: at every valve the flow is zero when the inlet pressure is at most *)
(* the outlet pressure, and the pressure difference over the resistance   *)
(* otherwise; the four valves of the loop and valveFlow apply one law     *)
C4_ValveLaw ==
    fn.F = IF fn.Pin <= fn.Pout
           THEN 0
           ELSE Div((fn.Pin - fn.Pout) * RS, fn.R)

(* C4 witness: an open valve with flow, at the last of the four sites *)
C4_Witness ==
    /\ fn.site = "Qpulv"
    /\ fn.Pin > fn.Pout
    /\ fn.F > 0

---------------------------------------------------------------------------
(* applyDelay, one delay line fed by its caller *)

MaxDelayCalls == 5

DelayChoices == {0, 50, 100, 150, 250, 300}
DelayDtChoices == {50, 100}
SampleChoices == {0, 1, 2}

(* The <<D, dt>> with D <= 0.3 s a multiple of 0.05 s and dt 0.05 s or 0.1 s *)
(* whose quotient D / dt in IEEE doubles lies just below the integer it    *)
(* equals in exact arithmetic: 0.15/0.05 = 2.9999999999999996,             *)
(* 0.3/0.05 = 5.999999999999999, 0.3/0.1 = 2.9999999999999996              *)
QuotientBelowInteger == {<<150, 50>>, <<300, 50>>, <<300, 100>>}

(* int(D / dt): the double quotient, truncated *)
int_quotient(d, h) ==
    IF <<d, h>> \in QuotientBelowInteger THEN Div(d, h) - 1 ELSE Div(d, h)

(* applyDelay without the pop *)
applyDelay_keep(current_value, buf, h, d) ==
    LET appended == Append(buf, current_value)
    IN  [delayed_value |-> appended[1], delay_buffer |-> appended]

(* applyDelay: the value returned and the buffer the call leaves *)
applyDelay(current_value, buf, h, d) ==
    LET delay_steps == int_quotient(d, h)
        appended    == Append(buf, current_value)
    IN  IF Len(appended) > delay_steps
        THEN [delayed_value |-> Head(appended), delay_buffer |-> Tail(appended)]
        ELSE [delayed_value |-> appended[1], delay_buffer |-> appended]

(* The caller creates an empty buffer for a signal with delay D *)
InitDelay ==
    /\ SimIdle
    /\ ValveIdle
    /\ ObjIdle
    /\ LungIdle
    /\ EvalIdle
    /\ delay_buffer = <<>>
    /\ D \in DelayChoices
    /\ delay_dt \in DelayDtChoices
    /\ supplied = <<>>
    /\ delayed_value = 0

ApplyDelay ==
    /\ Len(supplied) < MaxDelayCalls
    /\ \E current_value \in SampleChoices :
         LET r == applyDelay(current_value, delay_buffer, delay_dt, D)
         IN  /\ delayed_value' = r.delayed_value
             /\ delay_buffer' = r.delay_buffer
             /\ supplied' = Append(supplied, current_value)
    /\ UNCHANGED <<D, delay_dt, simvars, valvevars, objvars, lungvars, evalvars>>

NextDelay == ApplyDelay

SpecDelay == InitDelay /\ [][NextDelay]_vars

(* C8: call n returns the sample supplied D/dt calls earlier once more than *)
(* D/dt samples have been supplied, and the earliest sample before that     *)
C8_ReturnsSampleDOverDtCallsEarlier ==
    LET n     == Len(supplied)
        steps == Div(D, delay_dt)
    IN  n > 0 =>
          delayed_value = IF n > steps THEN supplied[n - steps] ELSE supplied[1]

(* C9: after every call the buffer is no longer than ceil(D/dt) and holds *)
(* the most recent samples supplied, in order, and nothing else           *)
C9_BufferBounded ==
    LET n == Len(supplied)
        m == Len(delay_buffer)
    IN  /\ m <= CeilDiv(D, delay_dt)
        /\ m <= n
        /\ delay_buffer = SubSeq(supplied, n - m + 1, n)

(* C9 witness: a buffer that has dropped samples holds ceil(D/dt) of them *)
C9_Witness ==
    /\ Len(supplied) > Len(delay_buffer)
    /\ Len(delay_buffer) >= 2
    /\ Len(delay_buffer) = CeilDiv(D, delay_dt)

---------------------------------------------------------------------------
(***************************************************************************)
(* The component models SystemicModel, PulmonaryModel and                  *)
(* ControlSystemModel: construction from a parameter dictionary, and the   *)
(* statements of SystemicModel.compute_derivatives.                        *)
(*                                                                         *)
(* Numbers of SystemicModel: pressures, volumes and flows count hundredths *)
(* (CS), resistances ten-thousandths (RS), compliances and the            *)
(* autoregulation states thousandths (FS), the inertance Lsa counts 1e-5,  *)
(* times count ticks of 1 ms.                                              *)
(***************************************************************************)
MaxDerivativeCalls == 2     \* compute_derivatives calls on one object

(* __init__ of each class, statement by statement: the attribute assigned  *)
(* and the keys the statement reads with params[...].  A key read with     *)
(* params.get(key, default) is optional and is not listed.                 *)
SystemicInit ==
    << <<"params", {}>>, <<"Rsa", {"Rsa"}>>, <<"Lsa", {"Lsa"}>>, <<"Csa",
       {"Csa"}>>, <<"Vusa", {"Vusa"}>>, <<"Rsp", {"Rsp"}>>, <<"Csp", {"Csp"}>>,
       <<"Vusp", {"Vusp"}>>, <<"Rep", {"Rep"}>>, <<"Cep", {"Cep"}>>, <<"Vuep",
       {"Vuep"}>>, <<"Ramp", {"Ramp"}>>, <<"Ramp_n", {"Ramp"}>>, <<"Camp",
       {"Camp"}>>, <<"Vuamp", {"Vuamp"}>>, <<"Rrmp", {"Rrmp"}>>, <<"Crmp",
       {"Crmp"}>>, <<"Vurmp", {"Vurmp"}>>, <<"Rbp", {"Rbp"}>>, <<"Cbp",
       {"Cbp"}>>, <<"Vubp", {"Vubp"}>>, <<"Rhp", {"Rhp"}>>, <<"Rhp_n",
       {"Rhp"}>>, <<"Chp", {"Chp"}>>, <<"Vuhp", {"Vuhp"}>>, <<"Rsv", {"Rsv"}>>,
       <<"Csv", {"Csv"}>>, <<"Vusv", {"Vusv"}>>, <<"Ramv", {"Ramv"}>>,
       <<"Ramv_n", {"Ramv"}>>, <<"Camv", {"Camv"}>>, <<"Vuamv", {"Vuamv"}>>,
       <<"P0_amv", {"P0_amv"}>>, <<"kr_am", {}>>, <<"Rrmv", {"Rrmv"}>>,
       <<"Crmv", {"Crmv"}>>, <<"Vurmv", {"Vurmv"}>>, <<"Rbv", {"Rbv"}>>,
       <<"Cbv", {"Cbv"}>>, <<"Vubv", {"Vubv"}>>, <<"Rhv", {"Rhv"}>>, <<"Chv",
       {"Chv"}>>, <<"Vuhv", {"Vuhv"}>>, <<"Cev", {"Cev"}>>, <<"Vuev",
       {"Vuev"}>>, <<"A_pump", {}>>, <<"Tc", {}>>, <<"Tim", {}>>,
       <<"alpha_muscle", {}>>, <<"D1", {"D1"}>>, <<"K1", {"K1"}>>, <<"Vutv",
       {"Vutv"}>>, <<"D2", {"D2"}>>, <<"K2", {"K2"}>>, <<"Vtv_min",
       {"Vtv_min"}>>, <<"K_xp", {"K_xp"}>>, <<"K_xv", {"K_xv"}>>, <<"KR",
       {"KR"}>>, <<"Vtv_max", {"Vtv_max"}>>, <<"Rtv_0", {"Rtv_0"}>>, <<"Rtv",
       {"Rtv"}>>, <<"TBV", {"TBV"}>>, <<"Psa", {}>>, <<"Qsa", {}>>, <<"Pep",
       {}>>, <<"Psv", {}>>, <<"Pamv", {}>>, <<"Prmv", {}>>, <<"Pbv", {}>>,
       <<"Phv", {}>>, <<"Pev", {}>>, <<"Vamv", {}>>, <<"Vtv", {}>>, <<"Ptv",
       {}>>, <<"Ppl", {}>>, <<"dVusv", {}>>, <<"dVuamv", {}>>, <<"dVurmv", {}>> >>

PulmonaryInit ==
    << <<"params", {}>>, <<"Rpa", {"Rpa"}>>, <<"Rpp", {"Rpp"}>>, <<"Rps",
       {"Rps"}>>, <<"Rpv", {"Rpv"}>>, <<"Cpa", {"Cpa"}>>, <<"Cpp", {"Cpp"}>>,
       <<"Cps", {"Cps"}>>, <<"Cpv", {"Cpv"}>>, <<"Vu_pa", {"Vu_pa"}>>,
       <<"Vu_pp", {"Vu_pp"}>>, <<"Vu_ps", {"Vu_ps"}>>, <<"Vu_pv", {"Vu_pv"}>>,
       <<"Ppa", {}>>, <<"Ppvb", {}>>, <<"Ppv", {}>>, <<"P_thor", {}>>,
       <<"dP_thor", {}>> >>

ControlInit ==
    << <<"params", {}>>, <<"P_n", {"P_n"}>>, <<"k_ab", {"k_ab"}>>, <<"tau_ab",
       {"tau_ab"}>>, <<"tau_ab_z", {"tau_ab_z"}>>, <<"k_Ab", {"k_Ab"}>>,
       <<"tau_Ab", {"tau_Ab"}>>, <<"tau_Ab_z", {"tau_Ab_z"}>>, <<"f_ab_min",
       {"f_ab_min"}>>, <<"f_ab_max", {"f_ab_max"}>>, <<"pO2_n", {"pO2_n"}>>,
       <<"pCO2_n", {"pCO2_n"}>>, <<"G_pO2", {"G_pO2"}>>, <<"G_pCO2",
       {"G_pCO2"}>>, <<"G_cCO2", {"G_cCO2"}>>, <<"tau_pO2", {"tau_pO2"}>>,
       <<"tau_pCO2", {"tau_pCO2"}>>, <<"tau_cCO2", {"tau_cCO2"}>>,
       <<"f_ch_min", {"f_ch_min"}>>, <<"f_ch_max", {"f_ch_max"}>>, <<"G_ls",
       {"G_ls"}>>, <<"tau_ls", {"tau_ls"}>>, <<"VT_n", {"VT_n"}>>,
       <<"pO2_cns_th", {"pO2_cns_th"}>>, <<"pCO2_cns_th", {"pCO2_cns_th"}>>,
       <<"G_cns_O2", {"G_cns_O2"}>>, <<"G_cns_CO2", {"G_cns_CO2"}>>,
       <<"tau_cns_O2", {"tau_cns_O2"}>>, <<"tau_cns_CO2", {"tau_cns_CO2"}>>,
       <<"f_es_inf", {"f_es_inf"}>>, <<"f_es_0", {"f_es_0"}>>, <<"f_ev_0",
       {"f_ev_0"}>>, <<"f_ev_inf", {"f_ev_inf"}>>, <<"k_es", {"k_es"}>>,
       <<"k_ev", {"k_ev"}>>, <<"G_R", {"G_R"}>>, <<"tau_R", {"tau_R"}>>,
       <<"D_R", {"D_R"}>>, <<"R_0", {"R_0"}>>, <<"R_inf", {"R_inf"}>>,
       <<"R_max", {"R_max"}>>, <<"G_V", {"G_V"}>>, <<"tau_V", {"tau_V"}>>,
       <<"D_V", {"D_V"}>>, <<"Vu_0", {"Vu_0"}>>, <<"G_E", {"G_E"}>>, <<"tau_E",
       {"tau_E"}>>, <<"D_E", {"D_E"}>>, <<"E_0", {"E_0"}>>, <<"E_max",
       {"E_max"}>>, <<"G_Ts", {"G_Ts"}>>, <<"tau_Ts", {"tau_Ts"}>>, <<"D_Ts",
       {"D_Ts"}>>, <<"G_Tv", {"G_Tv"}>>, <<"tau_Tv", {"tau_Tv"}>>, <<"D_Tv",
       {"D_Tv"}>>, <<"T_0", {"T_0"}>>, <<"T_min", {"T_min"}>>, <<"T_max",
       {"T_max"}>>, <<"G_br_O2", {"G_br_O2"}>>, <<"G_br_CO2", {"G_br_CO2"}>>,
       <<"tau_br_O2", {"tau_br_O2"}>>, <<"tau_br_CO2", {"tau_br_CO2"}>>,
       <<"G_cor_O2", {"G_cor_O2"}>>, <<"G_cor_CO2", {"G_cor_CO2"}>>,
       <<"tau_cor_O2", {"tau_cor_O2"}>>, <<"tau_cor_CO2", {"tau_cor_CO2"}>>,
       <<"G_mus_O2", {"G_mus_O2"}>>, <<"G_mus_CO2", {"G_mus_CO2"}>>,
       <<"tau_mus_O2", {"tau_mus_O2"}>>, <<"tau_mus_CO2", {"tau_mus_CO2"}>>,
       <<"G_cc_symp", {"G_cc_symp"}>>, <<"G_cc_vagal", {"G_cc_vagal"}>>,
       <<"I_th_cc", {"I_th_cc"}>>, <<"P_im_max", {"P_im_max"}>>, <<"k_mp",
       {"k_mp"}>>, <<"f_contraction", {"f_contraction"}>>, <<"VO2_rest",
       {"VO2_rest"}>>, <<"VO2_max", {"VO2_max"}>>, <<"VCO2_rest",
       {"VCO2_rest"}>>, <<"RQ_rest", {"RQ_rest"}>>, <<"RQ_max", {"RQ_max"}>>,
       <<"Vdot_n", {"Vdot_n"}>>, <<"A_vent", {"A_vent"}>>, <<"B_vent",
       {"B_vent"}>>, <<"tau_v", {"tau_v"}>>, <<"fast_fraction",
       {"fast_fraction"}>> >>

PulmonaryReads ==
    { "Cpa", "Cpp", "Cps", "Cpv", "P_thor", "Ppa", "Ppv", "Ppvb", "Rpa",
      "Rpp", "Rps", "Rpv", "Vu_pa", "Vu_pp", "Vu_ps", "Vu_pv", "dP_thor" }

ControlReads ==
    { "A_vent", "B_vent", "E_0", "E_max", "G_E", "G_R", "G_Ts", "G_Tv", "G_V",
      "G_br_CO2", "G_br_O2", "G_cCO2", "G_cc_symp", "G_cc_vagal", "G_cns_CO2",
      "G_cns_O2", "G_cor_CO2", "G_cor_O2", "G_ls", "G_mus_CO2", "G_mus_O2",
      "G_pCO2", "G_pO2", "I_th_cc", "P_im_max", "P_n", "RQ_max", "RQ_rest",
      "R_inf", "R_max", "T_0", "T_max", "T_min", "VO2_max", "VO2_rest",
      "VT_n", "Vdot_n", "Vu_0", "f_ab_max", "f_ab_min", "f_ch_max",
      "f_ch_min", "f_es_0", "f_es_inf", "f_ev_0", "f_ev_inf", "fast_fraction",
      "k_Ab", "k_ab", "k_es", "k_ev", "pCO2_cns_th", "pCO2_n", "pO2_cns_th",
      "pO2_n", "params", "tau_Ab", "tau_Ab_z", "tau_E", "tau_R", "tau_Ts",
      "tau_Tv", "tau_V", "tau_ab", "tau_ab_z", "tau_br_CO2", "tau_br_O2",
      "tau_cCO2", "tau_cns_CO2", "tau_cns_O2", "tau_cor_CO2", "tau_cor_O2",
      "tau_ls", "tau_mus_CO2", "tau_mus_O2", "tau_pCO2", "tau_pO2", "tau_v" }

ControlKeyReads ==
    { "Vu_0", "k_mp" }

(* Keys read with params.get *)
SystemicOptional ==
    { "Ramp_n", "Rhp_n", "Ramv_n", "kr_am", "A_pump", "Tc", "Tim",
      "Vamv_init", "Vtv_init" }

PulmonaryOptional == { "Ppa_init", "Ppvb_init", "Ppv_init" }

KeysRead(init) == UNION {init[k][2] : k \in 1..Len(init)}

(* The keys of a complete parameter dictionary; systemicParams of          *)
(* parameters.py also holds the key Rev, which SystemicModel never reads.  *)
SystemicKeys == KeysRead(SystemicInit) \cup SystemicOptional \cup {"Rev"}

PulmonaryKeys == KeysRead(PulmonaryInit) \cup PulmonaryOptional

ControlKeys == KeysRead(ControlInit)

(* The dictionaries passed to a constructor: complete, or one key short *)
ParamKeyChoices(all) == {all} \cup {all \ {k} : k \in all}

Assigned(init, n) == {init[k][1] : k \in 1..n}

(* params[key] raises KeyError at the first statement reading an absent key *)
KeyErrorAt(init, keys) == {k \in 1..Len(init) : ~(init[k][2] \subseteq keys)}

First(S) == CHOOSE k \in S : \A j \in S : k <= j

(* Values of the parameter dictionary of SystemicModel *)
systemicParams ==
    [Rsa |-> 600, Lsa |-> 22, Csa |-> 280, Vusa |-> 0,
     Rsp |-> 33070, Csp |-> 2050, Vusp |-> 24147,
     Rep |-> 35200, Cep |-> 668, Vuep |-> 11848,
     Ramp |-> 74600, Camp |-> 315, Vuamp |-> 5586,
     Rrmp |-> 112000, Crmp |-> 210, Vurmp |-> 3724,
     Rbp |-> 65700, Cbp |-> 358, Vubp |-> 6347,
     Rhp |-> 197100, Chp |-> 119, Vuhp |-> 2112,
     Rsv |-> 380, Csv |-> 43110, Vusv |-> 98648,
     Ramv |-> 833, Camv |-> 6600, Vuamv |-> 22817,
     Rrmv |-> 1250, Crmv |-> 4400, Vurmv |-> 15211,
     Rbv |-> 750, Cbv |-> 7500, Vubv |-> 25928,
     Rhv |-> 2240, Chv |-> 2500, Vuhv |-> 8642,
     Cev |-> 14000, Vuev |-> 48400, Rtv |-> 54, TBV |-> 530000,
     A_pump |-> 5000, Tim |-> 1000, Tc |-> 750,
     P0_amv |-> 393, kr_am |-> 2417,
     Ramp_n |-> 37300, Rhp_n |-> 98550, Ramv_n |-> 1000,
     Vamv_init |-> 25000, Vtv_init |-> 20000]

(* params.get(key, default) *)
Get(p, keys, key, default) == IF key \in keys THEN p[key] ELSE default

(* The attributes of a constructed SystemicModel that its step uses *)
SystemicObject(p, keys) ==
    [Rsa |-> p.Rsa, Lsa |-> p.Lsa, Csa |-> p.Csa, Vusa |-> p.Vusa,
     Rsp |-> p.Rsp, Csp |-> p.Csp, Vusp |-> p.Vusp,
     Rep |-> p.Rep, Cep |-> p.Cep, Vuep |-> p.Vuep,
     Ramp_n |-> Get(p, keys, "Ramp_n", p.Ramp),
     Camp |-> p.Camp, Vuamp |-> p.Vuamp,
     Rrmp |-> p.Rrmp, Crmp |-> p.Crmp, Vurmp |-> p.Vurmp,
     Rbp |-> p.Rbp, Cbp |-> p.Cbp, Vubp |-> p.Vubp,
     Rhp_n |-> Get(p, keys, "Rhp_n", p.Rhp),
     Chp |-> p.Chp, Vuhp |-> p.Vuhp,
     Rsv |-> p.Rsv, Csv |-> p.Csv, Vusv |-> p.Vusv,
     Ramv_n |-> Get(p, keys, "Ramv_n", p.Ramv),
     Camv |-> p.Camv, Vuamv |-> p.Vuamv, P0_amv |-> p.P0_amv,
     kr_am |-> Get(p, keys, "kr_am", 2417),
     Rrmv |-> p.Rrmv, Crmv |-> p.Crmv, Vurmv |-> p.Vurmv,
     Rbv |-> p.Rbv, Cbv |-> p.Cbv, Vubv |-> p.Vubv,
     Rhv |-> p.Rhv, Chv |-> p.Chv, Vuhv |-> p.Vuhv,
     Cev |-> p.Cev, Vuev |-> p.Vuev,
     A_pump |-> Get(p, keys, "A_pump", 0),
     Tc |-> Get(p, keys, "Tc", 1000),
     Tim |-> Get(p, keys, "Tim", 400),
     alpha_muscle |-> 0,
     Rtv |-> p.Rtv, TBV |-> p.TBV,
     Psa |-> 0, Qsa |-> 0, Pep |-> 0,
     Psv |-> 0, Pamv |-> 0, Prmv |-> 0, Pbv |-> 0, Phv |-> 0, Pev |-> 0,
     Vamv |-> Get(p, keys, "Vamv_init", 10000),
     Vtv |-> Get(p, keys, "Vtv_init", 20000),
     Ptv |-> 0, Ppl |-> 0, dVusv |-> 0, dVuamv |-> 0, dVurmv |-> 0]

(* The whole of __init__: every statement in order up to the first        *)
(* KeyError, which leaves the caller without an object.                    *)
Construct(c, init, keys) ==
    /\ opc = "new"
    /\ component' = c
    /\ given' = keys
    /\ IF KeyErrorAt(init, keys) = {}
         THEN /\ attrs' = Assigned(init, Len(init))
              /\ opc' = "constructed"
         ELSE /\ attrs' = Assigned(init, First(KeyErrorAt(init, keys)) - 1)
              /\ opc' = "KeyError"
    /\ UNCHANGED <<args, loc, mutated, ncd>>
    /\ UNCHANGED <<simvars, valvevars, delayvars, lungvars, evalvars>>

ConstructSystemic ==
    \E keys \in ParamKeyChoices(SystemicKeys) :
        /\ Construct("SystemicModel", SystemicInit, keys)
        /\ obj' = IF KeyErrorAt(SystemicInit, keys) = {}
                    THEN SystemicObject(systemicParams, keys)
                    ELSE obj

ConstructPulmonary ==
    \E keys \in ParamKeyChoices(PulmonaryKeys) :
        /\ Construct("PulmonaryModel", PulmonaryInit, keys)
        /\ UNCHANGED obj

ConstructControl ==
    \E keys \in ParamKeyChoices(ControlKeys) :
        /\ Construct("ControlSystemModel", ControlInit, keys)
        /\ UNCHANGED obj

(* compute_derivatives of PulmonaryModel and of ControlSystemModel: the    *)
(* attributes and the params keys their statements read; they assign no    *)
(* attribute.                                                              *)
Derivatives(c, attrReads, keyReads) ==
    /\ component = c
    /\ opc \in {"constructed", "returned"}
    /\ ncd < MaxDerivativeCalls
    /\ ncd' = ncd + 1
    /\ opc' = IF ~(attrReads \subseteq attrs) THEN "AttributeError"
              ELSE IF ~(keyReads \subseteq given) THEN "KeyError"
              ELSE "returned"
    /\ UNCHANGED <<component, given, attrs, obj, args, loc, mutated>>
    /\ UNCHANGED <<simvars, valvevars, delayvars, lungvars, evalvars>>

PulmonaryDerivatives == Derivatives("PulmonaryModel", PulmonaryReads, {})

ControlDerivatives ==
    Derivatives("ControlSystemModel", ControlReads, ControlKeyReads)

(* Arithmetic of the SystemicModel statements *)
Quot(a, b) == IF b > 0 THEN Div(a, b) ELSE Div(0 - a, 0 - b)

Flow(Pa, Pb, R) == Quot((Pa - Pb) * RS, R)          \* (Pa - Pb) / R

Volume(C, P, Vu) == Div(C * P, FS) + Vu             \* C * P + Vu

Rate(Q, C) == Div(Q * FS, C)                        \* Q / C

(* np.sin(np.pi * u), u in thousandths (Bhaskara's rational approximation) *)
SinPi(u) ==
    LET v == u % (2 * FS)
        w == IF v <= FS THEN v ELSE v - FS
        h == Div(w * (FS - w), FS)
        b == Div(16 * h * FS, 5 * FS - 4 * h)
    IN  IF v <= FS THEN b ELSE 0 - b

Isqrt(x) == CHOOSE r \in 0..FS : r * r <= x /\ (r + 1) * (r + 1) > x

(* r ** (-3.0 / 2.0) for 0 < r <= 1, in thousandths *)
PowMinusThreeHalves(r) == Div(FS * FS * FS, r * Isqrt(r * FS))

starlingResistor(Rjv_n, Pjv, Ptv, Pj) ==
    IF Ptv > Pj THEN Rjv_n
    ELSE IF Pjv - Pj = 0 THEN Rjv_n * 10
    ELSE Max(Quot(Rjv_n * (Ptv - Pj), Pjv - Pj), Div(Rjv_n, 10))

activeMuscleVenousResistance(s, Vamv) == Div(s.kr_am * RS, Max(Vamv, CS))

systemicArteryRLC(s, Qin) ==
    [dQsa |-> Div((s.Psa - s.Pep - Div(s.Rsa * s.Qsa, RS)) * 10^3, s.Lsa)
                * 10^2,
     dPsa |-> Rate(Qin - s.Qsa, s.Csa),
     Vsa |-> Volume(s.Csa, s.Psa, s.Vusa)]

splanchnicPeripheral(s) ==
    [Qsp |-> Flow(s.Pep, s.Psv, s.Rsp),
     Vsp |-> Volume(s.Csp, s.Pep, s.Vusp)]

activeMusclePeripheral(s, x_am_O2, x_met) ==
    LET Ramp_eff == Div(s.Ramp_n * FS, FS + x_am_O2 + x_met)
    IN  [Qamp |-> Flow(s.Pep, s.Pamv, Ramp_eff),
         Vamp |-> Volume(s.Camp, s.Pep, s.Vuamp),
         Ramp_eff |-> Ramp_eff]

restingMusclePeripheral(s) ==
    [Qrmp |-> Flow(s.Pep, s.Prmv, s.Rrmp),
     Vrmp |-> Volume(s.Crmp, s.Pep, s.Vurmp)]

brainPeripheral(s) ==
    [Qbp |-> Flow(s.Pep, s.Pbv, s.Rbp),
     Vbp |-> Volume(s.Cbp, s.Pep, s.Vubp)]

coronaryPeripheral(s, x_h_O2) ==
    LET Rhp_eff == Div(s.Rhp_n * FS, FS + x_h_O2)
    IN  [Qhp |-> Flow(s.Pep, s.Phv, Rhp_eff),
         Vhp |-> Volume(s.Chp, s.Pep, s.Vuhp),
         Rhp_eff |-> Rhp_eff]

extrasplanchnicPeripheral(s, Qsp, Qamp, Qrmp, Qbp, Qhp) ==
    LET Qep == Flow(s.Pep, s.Pev, s.Rep)
        Ctot == s.Csp + s.Cep + s.Camp + s.Crmp + s.Cbp + s.Chp
        Qout_total == Qsp + Qep + Qamp + Qrmp + Qbp + Qhp
    IN  [dPep |-> Rate(s.Qsa - Qout_total, Ctot),
         Qep |-> Qep,
         Vep |-> Volume(s.Cep, s.Pep, s.Vuep)]

\* The activation without the test of the window.
musclePumpActivation_noWindow(s, t) ==
    LET alpha_muscle == Div((t % s.Tc) * FS, s.Tc)
    IN  [alpha_muscle |-> alpha_muscle,
         psi |-> SinPi(Div(Div(s.Tim * FS, s.Tc) * alpha_muscle, FS))]

musclePumpActivation(s, t) ==
    LET alpha_muscle == Div((t % s.Tc) * FS, s.Tc)
    IN  [alpha_muscle |-> alpha_muscle,
         psi |-> IF alpha_muscle <= Div(s.Tim * FS, s.Tc)
                   THEN SinPi(Div(Div(s.Tim * FS, s.Tc) * alpha_muscle, FS))
                   ELSE 0]

intramuscularPressure(s, t) ==
    [alpha_muscle |-> musclePumpActivation(s, t).alpha_muscle,
     Pim |-> Div(s.A_pump * musclePumpActivation(s, t).psi, FS)]

activeMuscleVenousNonlinear(s, Qamp, Pra, Pim, use_variable_resistance) ==
    LET Ramv_eff == IF use_variable_resistance
                      THEN activeMuscleVenousResistance(s, s.Vamv)
                      ELSE s.Ramv_n
        fout == Flow(s.Pamv, Pra, Ramv_eff) + s.dVuamv
        Pamv == IF s.Vamv > s.Vuamv
                  THEN Pim + Div((s.Vamv - s.Vuamv) * FS, s.Camv)
                  ELSE Pim + Div(s.P0_amv * (FS - PowMinusThreeHalves(
                                     Div(s.Vamv * FS, s.Vuamv))), FS)
    IN  [dVamv |-> Qamp - fout,
         Qamv |-> Flow(Pamv, s.Ptv, s.Rtv),
         Vamv |-> s.Vamv,
         Pamv |-> Pamv,
         Ramv_eff |-> Ramv_eff]

restingMuscleVenous(s, Qrmp, Pra, Pabd, use_starling) ==
    LET Rrmv_eff == IF use_starling
                      THEN starlingResistor(s.Rrmv, s.Prmv, s.Ptv, 0)
                      ELSE s.Rrmv
        fout == Flow(s.Prmv, Pra, Rrmv_eff) + s.dVurmv
    IN  [dPrmv |-> Rate(Qrmp - fout, s.Crmv),
         Qrmv |-> Flow(s.Prmv, s.Ptv, s.Rtv),
         Vrmv |-> Volume(s.Crmv, s.Prmv, s.Vurmv),
         Rrmv_eff |-> Rrmv_eff]

splanchnicVenous(s, Qsp, Pra, Pabd, use_starling) ==
    LET Rsv_eff == IF use_starling
                     THEN starlingResistor(s.Rsv, s.Psv, s.Ptv, Pabd)
                     ELSE s.Rsv
        fout == Flow(s.Psv, Pra, Rsv_eff) + s.dVusv
    IN  [dPsv |-> Rate(Qsp - fout, s.Csv),
         Qsv |-> Flow(s.Psv, s.Ptv, s.Rtv),
         Vsv |-> Volume(s.Csv, s.Psv, s.Vusv),
         Rsv_eff |-> Rsv_eff]

brainVenous(s, Qbp, Pra, use_starling) ==
    LET Rbv_eff == IF use_starling
                     THEN starlingResistor(s.Rbv, s.Pbv, s.Ptv, 0)
                     ELSE s.Rbv
    IN  [dPbv |-> Rate(Qbp - Flow(s.Pbv, Pra, Rbv_eff), s.Cbv),
         Qbv |-> Flow(s.Pbv, s.Ptv, s.Rtv),
         Vbv |-> Volume(s.Cbv, s.Pbv, s.Vubv),
         Rbv_eff |-> Rbv_eff]

coronaryVenous(s, Qhp, Pra, use_starling) ==
    LET Rhv_eff == IF use_starling
                     THEN starlingResistor(s.Rhv, s.Phv, s.Ptv, 0)
                     ELSE s.Rhv
    IN  [dPhv |-> Rate(Qhp - Flow(s.Phv, Pra, Rhv_eff), s.Chv),
         Qhv |-> Flow(s.Phv, s.Ptv, s.Rtv),
         Vhv |-> Volume(s.Chv, s.Phv, s.Vuhv),
         Rhv_eff |-> Rhv_eff]

(* Vnet = Vsa + Vsp + ... + Vhv + self.Vtv *)
Vnet_without_Vtv(l, s) ==
    l.Vsa + l.Vsp + l.Vep + l.Vamp + l.Vrmp + l.Vbp + l.Vhp + l.Vsv
        + l.Vamv + l.Vrmv + l.Vbv + l.Vhv

Vnet(l, s) ==
    l.Vsa + l.Vsp + l.Vep + l.Vamp + l.Vrmp + l.Vbp + l.Vhp + l.Vsv
        + l.Vamv + l.Vrmv + l.Vbv + l.Vhv + s.Vtv

(* extrasplanchnicVenous up to its read of self.Rev *)
extrasplanchnicVenous(s, vnet) ==
    [Vev |-> s.TBV - vnet,
     Pev |-> Rate(s.TBV - vnet - s.Vuev, s.Cev)]

(* ... and from that read on, when the object has the attribute *)
extrasplanchnicVenousFlow(s, Pev, use_starling) ==
    [Rev_eff |-> IF use_starling
                   THEN starlingResistor(s.Rev, Pev, s.Ptv, 0)
                   ELSE s.Rev,
     Qev |-> Flow(Pev, s.Ptv, s.Rtv)]

(* Attributes each statement of compute_derivatives reads *)
Reads ==
    [intramuscularPressure |-> {"Tc", "Tim", "A_pump", "alpha_muscle"},
     systemicArteryRLC |-> {"Csa", "Lsa", "Pep", "Psa", "Qsa", "Rsa", "Vusa"},
     splanchnicPeripheral |-> {"Csp", "Pep", "Psv", "Rsp", "Vusp"},
     activeMusclePeripheral |-> {"Camp", "Pamv", "Pep", "Ramp_n", "Vuamp"},
     restingMusclePeripheral |-> {"Crmp", "Pep", "Prmv", "Rrmp", "Vurmp"},
     brainPeripheral |-> {"Cbp", "Pbv", "Pep", "Rbp", "Vubp"},
     coronaryPeripheral |-> {"Chp", "Pep", "Phv", "Rhp_n", "Vuhp"},
     extrasplanchnicPeripheral |->
         {"Camp", "Cbp", "Cep", "Chp", "Crmp", "Csp", "Pep", "Pev", "Qsa",
          "Rep", "Vuep"},
     splanchnicVenous |->
         {"Csv", "Psv", "Ptv", "Rsv", "Rtv", "Vusv", "dVusv"},
     activeMuscleVenousNonlinear |->
         {"Camv", "P0_amv", "Pamv", "Ptv", "Ramv_n", "Rtv", "Vamv", "Vuamv",
          "dVuamv", "kr_am"},
     restingMuscleVenous |->
         {"Crmv", "Prmv", "Ptv", "Rrmv", "Rtv", "Vurmv", "dVurmv"},
     brainVenous |-> {"Cbv", "Pbv", "Ptv", "Rbv", "Rtv", "Vubv"},
     coronaryVenous |-> {"Chv", "Phv", "Ptv", "Rhv", "Rtv", "Vuhv"},
     Vnet |-> {"Vtv"},
     extrasplanchnicVenous |-> {"Cev", "TBV", "Vuev"},
     extrasplanchnicVenousFlow |-> {"Ptv", "Rev", "Rtv"}]

(* Arguments the caller passes to SystemicModel.compute_derivatives *)
ArgumentChoices ==
    { [t |-> 0, Qin |-> 0, Pra |-> 0, x_am_O2 |-> 0, x_met |-> 0,
       x_h_O2 |-> 0, Pabd |-> 0, use_starling |-> FALSE,
       use_variable_Ramv |-> FALSE],
      [t |-> 300, Qin |-> 8000, Pra |-> 400, x_am_O2 |-> 200, x_met |-> 100,
       x_h_O2 |-> 150, Pabd |-> 0, use_starling |-> TRUE,
       use_variable_Ramv |-> TRUE],
      [t |-> 900, Qin |-> 0, Pra |-> 300, x_am_O2 |-> 0, x_met |-> 500,
       x_h_O2 |-> 0, Pabd |-> 200, use_starling |-> TRUE,
       use_variable_Ramv |-> FALSE] }

(* State variables the caller has advanced before a call *)
AdvancedStates ==
    { [Psa |-> 9500, Qsa |-> 8000, Pep |-> 9000, Psv |-> 800, Prmv |-> 700,
       Pbv |-> 650, Phv |-> 600, Vamv |-> 25000, Vtv |-> 20000],
      [Psa |-> 12000, Qsa |-> 15000, Pep |-> 11000, Psv |-> 600,
       Prmv |-> 500, Pbv |-> 700, Phv |-> 550, Vamv |-> 18000,
       Vtv |-> 26000] }

Advance(s, x) ==
    [s EXCEPT !.Psa = x.Psa, !.Qsa = x.Qsa, !.Pep = x.Pep, !.Psv = x.Psv,
              !.Prmv = x.Prmv, !.Pbv = x.Pbv, !.Phv = x.Phv,
              !.Vamv = x.Vamv, !.Vtv = x.Vtv]

(* A call of SystemicModel.compute_derivatives begins *)
CallSystemic ==
    /\ component = "SystemicModel"
    /\ opc \in {"constructed", "AttributeError"}
    /\ ncd < MaxDerivativeCalls
    /\ ncd' = ncd + 1
    /\ args' \in ArgumentChoices
    /\ obj' \in {obj} \cup {Advance(obj, x) : x \in AdvancedStates}
    /\ loc' = <<>>
    /\ opc' = "intramuscularPressure"
    /\ UNCHANGED <<component, given, attrs, mutated>>
    /\ UNCHANGED <<simvars, valvevars, delayvars, lungvars, evalvars>>

(* One statement of compute_derivatives: it binds the locals r, leaves     *)
(* the object as o having assigned the attributes w, and goes on to next;  *)
(* reading an attribute the object lacks raises AttributeError.            *)
Statement(stmt, r, o, w, next) ==
    /\ opc = stmt
    /\ IF Reads[stmt] \subseteq attrs
         THEN /\ loc' = r @@ loc
              /\ obj' = o
              /\ mutated' = mutated \cup w
              /\ opc' = next
         ELSE /\ opc' = "AttributeError"
              /\ UNCHANGED <<loc, obj, mutated>>
    /\ UNCHANGED <<component, given, attrs, args, ncd>>
    /\ UNCHANGED <<simvars, valvevars, delayvars, lungvars, evalvars>>

At_intramuscularPressure ==
    LET r == intramuscularPressure(obj, args.t)
    IN  Statement("intramuscularPressure", [Pim |-> r.Pim],
                  [obj EXCEPT !.alpha_muscle = r.alpha_muscle],
                  {"alpha_muscle"}, "systemicArteryRLC")

At_systemicArteryRLC ==
    Statement("systemicArteryRLC", systemicArteryRLC(obj, args.Qin),
              obj, {}, "splanchnicPeripheral")

At_splanchnicPeripheral ==
    Statement("splanchnicPeripheral", splanchnicPeripheral(obj),
              obj, {}, "activeMusclePeripheral")

At_activeMusclePeripheral ==
    Statement("activeMusclePeripheral",
              activeMusclePeripheral(obj, args.x_am_O2, args.x_met),
              obj, {}, "restingMusclePeripheral")

At_restingMusclePeripheral ==
    Statement("restingMusclePeripheral", restingMusclePeripheral(obj),
              obj, {}, "brainPeripheral")

At_brainPeripheral ==
    Statement("brainPeripheral", brainPeripheral(obj),
              obj, {}, "coronaryPeripheral")

At_coronaryPeripheral ==
    Statement("coronaryPeripheral", coronaryPeripheral(obj, args.x_h_O2),
              obj, {}, "extrasplanchnicPeripheral")

At_extrasplanchnicPeripheral ==
    Statement("extrasplanchnicPeripheral",
              extrasplanchnicPeripheral(obj, loc.Qsp, loc.Qamp, loc.Qrmp,
                                        loc.Qbp, loc.Qhp),
              obj, {}, "splanchnicVenous")

At_splanchnicVenous ==
    Statement("splanchnicVenous",
              splanchnicVenous(obj, loc.Qsp, args.Pra, args.Pabd,
                               args.use_starling),
              obj, {}, "activeMuscleVenousNonlinear")

At_activeMuscleVenousNonlinear ==
    LET r == activeMuscleVenousNonlinear(obj, loc.Qamp, args.Pra, loc.Pim,
                                         args.use_variable_Ramv)
    IN  Statement("activeMuscleVenousNonlinear", r,
                  [obj EXCEPT !.Pamv = r.Pamv], {"Pamv"},
                  "restingMuscleVenous")

At_restingMuscleVenous ==
    Statement("restingMuscleVenous",
              restingMuscleVenous(obj, loc.Qrmp, args.Pra, args.Pabd,
                                  args.use_starling),
              obj, {}, "brainVenous")

At_brainVenous ==
    Statement("brainVenous",
              brainVenous(obj, loc.Qbp, args.Pra, args.use_starling),
              obj, {}, "coronaryVenous")

At_coronaryVenous ==
    Statement("coronaryVenous",
              coronaryVenous(obj, loc.Qhp, args.Pra, args.use_starling),
              obj, {}, "Vnet")

At_Vnet ==
    Statement("Vnet", [Vnet |-> Vnet(loc, obj)], obj, {},
              "extrasplanchnicVenous")

(* Pev, Qev, Vev, Rev_eff = self.extrasplanchnicVenous(Vnet, use_starling) *)
(* followed by self.Pev = Pev.  The method computes Vev and Pev and then   *)
(* reads self.Rev.                                                         *)
At_extrasplanchnicVenous ==
    /\ opc = "extrasplanchnicVenous"
    /\ Reads.extrasplanchnicVenous \subseteq attrs
    /\ LET r == extrasplanchnicVenous(obj, loc.Vnet)
       IN  IF Reads.extrasplanchnicVenousFlow \subseteq attrs
             THEN /\ loc' = extrasplanchnicVenousFlow(obj, r.Pev,
                                args.use_starling) @@ r @@ loc
                  /\ obj' = [obj EXCEPT !.Pev = r.Pev]
                  /\ mutated' = mutated \cup {"Pev"}
                  /\ opc' = "thoracicVeins"
             ELSE /\ loc' = r @@ loc
                  /\ opc' = "AttributeError"
                  /\ UNCHANGED <<obj, mutated>>
    /\ UNCHANGED <<component, given, attrs, args, ncd>>
    /\ UNCHANGED <<simvars, valvevars, delayvars, lungvars, evalvars>>

NextModels ==
    \/ ConstructSystemic
    \/ ConstructPulmonary
    \/ ConstructControl
    \/ PulmonaryDerivatives
    \/ ControlDerivatives
    \/ CallSystemic
    \/ At_intramuscularPressure
    \/ At_systemicArteryRLC
    \/ At_splanchnicPeripheral
    \/ At_activeMusclePeripheral
    \/ At_restingMusclePeripheral
    \/ At_brainPeripheral
    \/ At_coronaryPeripheral
    \/ At_extrasplanchnicPeripheral
    \/ At_splanchnicVenous
    \/ At_activeMuscleVenousNonlinear
    \/ At_restingMuscleVenous
    \/ At_brainVenous
    \/ At_coronaryVenous
    \/ At_Vnet
    \/ At_extrasplanchnicVenous

SpecModels == Init /\ [][NextModels]_vars

(* The compartment volumes compute_derivatives computes besides Vev *)
SystemicVolumes ==
    {"Vsa", "Vsp", "Vep", "Vamp", "Vrmp", "Vbp", "Vhp", "Vsv", "Vamv",
     "Vrmv", "Vbv", "Vhv"}

(* Keys of the derivatives dictionary compute_derivatives packages *)
DerivativeNames ==
    {"dPsa", "dQsa", "dPep", "dPsv", "dVamv", "dPrmv", "dPbv", "dPhv",
     "dVtv"}

(* C2: in every call of SystemicModel.compute_derivatives, Vev equals TBV  *)
(* minus the sum of the other twelve compartment volumes of that step and  *)
(* the thoracic vein volume; when Vev is computed all of them have been    *)
(* computed in that call from the current state; Vev is no attribute of    *)
(* the object and no derivative of Vev or Pev is computed or packaged.     *)
C2_VevClosesTotalBloodVolume ==
    /\ "Vev" \notin attrs
    /\ {"dVev", "dPev"} \cap (DerivativeNames \cup DOMAIN loc) = {}
    /\ "Vev" \in DOMAIN loc =>
         /\ SystemicVolumes \subseteq DOMAIN loc
         /\ loc.Vev = obj.TBV - (loc.Vsa + loc.Vsp + loc.Vep + loc.Vamp
                + loc.Vrmp + loc.Vbp + loc.Vhp + loc.Vsv + loc.Vamv
                + loc.Vrmv + loc.Vbv + loc.Vhv + obj.Vtv)
         /\ loc.Vsa = Volume(obj.Csa, obj.Psa, obj.Vusa)
         /\ loc.Vsv = Volume(obj.Csv, obj.Psv, obj.Vusv)
         /\ loc.Vamv = obj.Vamv

(* A second call on an advanced state has computed Vev, with blood in      *)
(* every compartment.                                                      *)
C2_Witness ==
    /\ ncd = MaxDerivativeCalls
    /\ "Vev" \in DOMAIN loc
    /\ obj.Psa > 0
    /\ loc.Vev > obj.Vuev
    /\ loc.Vsa > 0

(* C10: a component model constructed from a parameter dictionary lacking  *)
(* a parameter it needs raises during initialization, before any           *)
(* compute_derivatives call and before any attribute is mutated; no        *)
(* compute_derivatives call runs into a missing parameter.                 *)
C10_FailsFastAtInit ==
    /\ opc = "KeyError" => ncd = 0 /\ mutated = {}
    /\ opc # "AttributeError"

---------------------------------------------------------------------------
(* Chamber pressures and valve flows recorded by the entry point *)

(* C13: every recorded ventricular and atrial pressure (LVP, RVP, LAP,     *)
(* RAP) is at least 0                                                      *)
C13_ChamberPressuresNonNegative ==
    \A k \in RecordedSamples :
        \A name \in {"LVP", "RVP", "LAP", "RAP"} : results[name][k] >= 0

(* C14: at every recorded sample the aortic valve flow is positive when    *)
(* LVP exceeds Psa at that sample, and 0 otherwise                         *)
C14_AorticFlowFollowsPressures ==
    \A k \in RecordedSamples :
        /\ results.LVP[k] > results.Psa[k] => results.Qaov[k] > 0
        /\ results.LVP[k] <= results.Psa[k] => results.Qaov[k] = 0

---------------------------------------------------------------------------
(***************************************************************************)
(* LungMechanicsModel: respiratory timing, phase and muscle pressure.      *)
(* Times count ticks of 1 ms, pressures (cmH2O) hundredths, pressure rates *)
(* hundredths per second, the exercise intensity and the timing fractions  *)
(* thousandths, Rlt and Ccw ten-thousandths.                               *)
(***************************************************************************)
MaxLungCalls == 22      \* compute_derivatives calls on one object

RRChoices == {12, 20}                   \* breaths per minute
IntensityChoices == {0, 200, 500, 1000} \* exercise_intensity
LungDtChoices == {500, 1000}            \* dt of the caller
PmusInitChoices == {0, -200}            \* params.get('Pmus_init', 0.0)
AirwayChoices == {[Pl |-> 0, Pt |-> 0], [Pl |-> -50, Pt |-> -30]}

(* np.exp(-n) for whole n, in millionths *)
ExpNegWhole(n) ==
    IF n > 13 THEN 0
    ELSE <<1000000, 367879, 135335, 49787, 18316, 6738, 2479, 912, 335,
           123, 45, 17, 6, 2>>[n + 1]

(* np.exp(-f) for 0 <= f < 1 (f in thousandths), in millionths: the series *)
(* up to the sixth power                                                   *)
ExpNegFraction(f) ==
    LET f2 == f * f
        f3 == Div(f2 * f, FS)
        f4 == Div(f3 * f, FS)
        f5 == Div(f4 * f, FS)
        f6 == Div(f5 * f, FS)
    IN  PS - f * FS + Div(f2, 2) - Div(f3, 6) + Div(f4, 24) - Div(f5, 120)
          + Div(f6, 720)

(* np.exp(-x), x >= 0 in thousandths, in millionths *)
ExpNeg(x) == MulP(ExpNegWhole(Div(x, FS)), ExpNegFraction(x % FS))

(* The attributes __init__ leaves that the timing and the muscle pressure  *)
(* use                                                                     *)
LungMechanicsModel(RR, intensity, Pmus_init, airway) ==
    [RR |-> RR, Pmus_min |-> -500, Rlt |-> 3369, Ccw |-> 2445,
     exercise_intensity |-> intensity,
     Pl |-> airway.Pl, Pt |-> airway.Pt,
     Pmus |-> Pmus_init, dPmus |-> 0, dPpl |-> 0,
     b |-> 0, Ti |-> 0, Te |-> 0, tau |-> 0]

(* respiration(t): b, Ti, Te *)
respiration(s, t) ==
    LET Ti_fraction == IF s.exercise_intensity <= 200
                         THEN 400 + Div(100 * s.exercise_intensity, FS)
                         ELSE 600 - Div(100 * s.exercise_intensity, FS)
        Te_fraction == IF s.exercise_intensity <= 200
                         THEN 350 + Div(1150 * s.exercise_intensity, FS)
                         ELSE 600 - Div(100 * s.exercise_intensity, FS)
        T == Div(60 * TPS, s.RR)
    IN  [b |-> t % T,
         Ti |-> Div(T * Ti_fraction, FS),
         Te |-> Div(T * Te_fraction, FS)]

(* musP(t, dt, Pmus_prev): Pmus, dPmus, tau.  The products of times are    *)
(* formed in hundredths of a second.                                       *)
musP(s, t, h, Pmus_prev) ==
    LET T == s.Ti + s.Te
        tau == Div(s.Te, 5)
        parabola == Div(Div(s.b, 10) * Div(T - s.b, 10) * FS,
                        Div(s.Ti, 10) * Div(s.Te, 10))
        exp_term == ExpNeg(Div(5 * (s.b - s.Ti) * FS, s.Te)) - ExpNeg(5 * FS)
        denominator == PS - ExpNeg(5 * FS)
        Pmus == IF s.b <= s.Ti
                  THEN Div(s.Pmus_min * parabola, FS)
                  ELSE Div(s.Pmus_min * Div(exp_term, 10),
                           Div(denominator, 10))
    IN  [Pmus |-> Pmus,
         dPmus |-> Div((Pmus - Pmus_prev) * TPS, h),
         tau |-> tau]

(* chestWall(): dPpl *)
chestWall(s) ==
    LET Qin == Div((s.Pl - s.Pt) * RS * 10, s.Rlt)
    IN  s.dPmus + Div(Div(Qin * RS, s.Ccw), 10)

(* phases(): 1 inspiration, -1 expiration *)
phases_strict(s) == IF s.b < s.Ti THEN 1 ELSE -1

phases(s) == IF s.b <= s.Ti THEN 1 ELSE -1

(* The object after steps 1 to 3 of compute_derivatives *)
Timed(s, t) ==
    [s EXCEPT !.b = respiration(s, t).b,
              !.Ti = respiration(s, t).Ti,
              !.Te = respiration(s, t).Te]

Driven(s, t, h) ==
    [Timed(s, t) EXCEPT !.Pmus = musP(Timed(s, t), t, h, s.Pmus).Pmus,
                        !.dPmus = musP(Timed(s, t), t, h, s.Pmus).dPmus,
                        !.tau = musP(Timed(s, t), t, h, s.Pmus).tau]

AfterChestWall(s, t, h) ==
    [Driven(s, t, h) EXCEPT !.dPpl = chestWall(Driven(s, t, h))]

LungOutputs(s, t) ==
    [t |-> t, b |-> s.b, Ti |-> s.Ti, Te |-> s.Te, phase |-> phases(s),
     Pmus |-> s.Pmus, dPmus |-> s.dPmus, dPpl |-> s.dPpl]

InitLung ==
    /\ SimIdle
    /\ ValveIdle
    /\ DelayIdle
    /\ ObjIdle
    /\ EvalIdle
    /\ lung \in {LungMechanicsModel(r, x, p, a) :
                   r \in RRChoices, x \in IntensityChoices,
                   p \in PmusInitChoices, a \in AirwayChoices}
    /\ lung_t = 0
    /\ lung_h \in LungDtChoices
    /\ lung_out = <<>>

(* compute_derivatives(t, Pao, dt), called by the integration loop at      *)
(* t = 0, dt, 2 dt, ...                                                    *)
LungDerivatives ==
    /\ Len(lung_out) < MaxLungCalls
    /\ lung' = AfterChestWall(lung, lung_t, lung_h)
    /\ lung_out' = Append(lung_out, LungOutputs(lung', lung_t))
    /\ lung_t' = lung_t + lung_h
    /\ UNCHANGED lung_h
    /\ UNCHANGED <<simvars, valvevars, delayvars, objvars, evalvars>>

NextLung == LungDerivatives

SpecLung == InitLung /\ [][NextLung]_vars

(* The cycle a recorded call falls in, and its duration *)
Period == Div(60 * TPS, lung.RR)

Cycle(k) == Div(lung_out[k].t, Period)

InspirationToExpiration(k) ==
    lung_out[k].phase = 1 /\ lung_out[k + 1].phase = -1

ExpirationToInspiration(k) ==
    lung_out[k].phase = -1 /\ lung_out[k + 1].phase = 1

(* C11: the phase is inspiration exactly when t mod T is at most Ti and    *)
(* expiration otherwise; the phase goes from inspiration to expiration     *)
(* only across the Ti boundary and exactly once in every cycle, and from   *)
(* expiration to inspiration exactly at every end of a cycle.              *)
C11_PhaseFollowsCycleTime ==
    /\ \A k \in 1..Len(lung_out) :
         /\ lung_out[k].b = lung_out[k].t % Period
         /\ lung_out[k].phase = IF lung_out[k].t % Period <= lung_out[k].Ti
                                  THEN 1 ELSE -1
    /\ \A k \in 1..(Len(lung_out) - 1) :
         /\ InspirationToExpiration(k) =>
              /\ Cycle(k + 1) = Cycle(k)
              /\ lung_out[k].b <= lung_out[k].Ti
              /\ lung_out[k].Ti < lung_out[k + 1].b
         /\ ExpirationToInspiration(k) <=> Cycle(k + 1) # Cycle(k)
    /\ \A c \in 0..MaxLungCalls :
         (\E k \in 1..Len(lung_out) : Cycle(k) > c) =>
             Cardinality({k \in 1..(Len(lung_out) - 1) :
                            Cycle(k) = c /\ InspirationToExpiration(k)}) = 1

(* C11 witness: a second cycle has begun, after one transition of each     *)
(* kind, and a call fell on the Ti boundary itself                         *)
C11_Witness ==
    /\ \E k \in 1..(Len(lung_out) - 1) :
         /\ ExpirationToInspiration(k)
         /\ \E j \in 1..(k - 1) : InspirationToExpiration(j)
    /\ \E k \in 1..Len(lung_out) : lung_out[k].b = lung_out[k].Ti

(* C12: the rate dPmus depends only on the cycle time and the waveform     *)
(* parameters: two calls of one object at the same cycle time give the     *)
(* same dPmus.                                                             *)
C12_RateDependsOnCycleTimeOnly ==
    \A j, k \in 1..Len(lung_out) :
        lung_out[j].b = lung_out[k].b =>
            lung_out[j].dPmus = lung_out[k].dPmus

(***************************************************************************)
(* Control system: static effector functions and final effector values.    *)
(* Firing rates are in thousandths of a hertz, heart periods in            *)
(* milliseconds, gas pressures and volumes in hundredths, resistances in   *)
(* ten-thousandths, elastances and gains in thousandths.  Each action is   *)
(* one call; ev records the function, its arguments and its return value.  *)
(***************************************************************************)

\* The parameter set of the module's own test run.
controlParams ==
    [pO2_cns_th |-> 3500, pCO2_cns_th |-> 5000,
     G_cns_O2 |-> 2000, G_cns_CO2 |-> 1500,
     f_es_inf |-> 2100,
     G_R |-> 800, R_0 |-> 10000, R_inf |-> 2000, R_max |-> 25000,
     G_V |-> 25000, Vu_0 |-> 300000,
     G_E |-> 500, E_0 |-> 1000, E_max |-> 2500,
     G_Ts |-> 130, tau_Ts |-> 2000, G_Tv |-> 90, tau_Tv |-> 1500,
     T_0 |-> 833, T_min |-> 400, T_max |-> 1500]

\* The constructor copies T_min and T_max from the caller's dictionary
\* unchecked: the second set keeps every other value and widens the two.
ControlParameterChoices ==
    {controlParams, [controlParams EXCEPT !.T_min = 200, !.T_max = 2500]}

FiringRateChoices == {0, 1000, 2100, 2101, 3000, 5000, 16000, 30000}
VagalRateChoices == {3200, 6300}
PeriodStateChoices == {-1000, -400, 0, 300, 1500}
PeriodChoices == {100, 240, 400, 833, 1500, 2000, 3000}

\* np.clip(x, lo, hi) is minimum(maximum(x, lo), hi).
clip(x, lo, hi) == Min(Max(x, lo), hi)

heartPeriodSympatheticStatic(self, f_es) ==
    Quot(0 - self.G_Ts * (f_es - self.f_es_inf), FS)

heartPeriodSympatheticDynamics(self, delta_T_s_static, x_Ts) ==
    Quot((delta_T_s_static - x_Ts) * TPS, self.tau_Ts)

heartPeriodVagalStatic(self, f_ev) == Quot(self.G_Tv * f_ev, FS)

heartPeriodVagalDynamics(self, delta_T_v_static, x_Tv) ==
    Quot((delta_T_v_static - x_Tv) * TPS, self.tau_Tv)

\* Returns the tuple (T, dx_Ts_dt, dx_Tv_dt).
heartPeriodEffectors(self, f_es, f_ev, x_Ts, x_Tv) ==
    <<clip(self.T_0 + x_Ts + x_Tv, self.T_min, self.T_max),
      heartPeriodSympatheticDynamics(
          self, heartPeriodSympatheticStatic(self, f_es), x_Ts),
      heartPeriodVagalDynamics(
          self, heartPeriodVagalStatic(self, f_ev), x_Tv)>>

ControlSystemModel_finalHeartPeriod(self, T) == clip(T, self.T_min, self.T_max)

\* The literal limits of the standalone function.
HeartPeriodFloor == 240
HeartPeriodCeiling == 2000

finalHeartPeriod(dT_s, dT_v, T_0, central_command, exercise_tachycardia) ==
    Max(Min(dT_s + dT_v + T_0 + central_command + exercise_tachycardia,
            HeartPeriodCeiling),
        HeartPeriodFloor)

\* ev.args is the tuple of the call's arguments in the order of the
\* signature (self first for a method), ev.ret what the call returned.
Returned(function, arguments, value) ==
    /\ ev' = [name |-> function, args |-> arguments, ret |-> value]
    /\ UNCHANGED <<simvars, valvevars, delayvars, objvars, lungvars>>

CallHeartPeriodEffectors ==
    \E self \in ControlParameterChoices, f_es \in {2100, 16000},
       f_ev \in VagalRateChoices, x_Ts, x_Tv \in PeriodStateChoices :
        Returned("heartPeriodEffectors", <<self, f_es, f_ev, x_Ts, x_Tv>>,
                 heartPeriodEffectors(self, f_es, f_ev, x_Ts, x_Tv))

CallClassFinalHeartPeriod ==
    \E self \in ControlParameterChoices, T \in PeriodChoices :
        Returned("ControlSystemModel.finalHeartPeriod", <<self, T>>,
                 ControlSystemModel_finalHeartPeriod(self, T))

CallFinalHeartPeriod ==
    \E dT_s, dT_v \in PeriodStateChoices, central_command \in {0, -300},
       exercise_tachycardia \in {0, -500} :
        Returned("finalHeartPeriod",
                 <<dT_s, dT_v, controlParams.T_0, central_command,
                   exercise_tachycardia>>,
                 finalHeartPeriod(dT_s, dT_v, controlParams.T_0,
                                  central_command, exercise_tachycardia))

HeartPeriodCalls ==
    {"heartPeriodEffectors", "ControlSystemModel.finalHeartPeriod",
     "finalHeartPeriod"}

\* The heart period a heart period call returned.
HeartPeriodOut ==
    IF ev.name = "heartPeriodEffectors" THEN ev.ret[1] ELSE ev.ret

(* C15: every heart period the control system returns, from the class's    *)
(* heartPeriodEffectors and finalHeartPeriod and from the standalone       *)
(* finalHeartPeriod, lies within [0.24, 2.0] s.                            *)
C15_HeartPeriodWithinFixedLimits ==
    ev.name \in HeartPeriodCalls =>
        /\ HeartPeriodFloor <= HeartPeriodOut
        /\ HeartPeriodOut <= HeartPeriodCeiling

(***************************************************************************)
(* CNS ischemic response.                                                  *)
(***************************************************************************)

BrainO2Choices == {2000, 3499, 3500, 3501, 10000}
BrainCO2Choices == {4000, 4999, 5000, 5001, 6000}

\* The O2 response with the gain applied on both sides of the threshold.
cnsIschemicO2Static_linear(self, pO2_brain) ==
    Quot(self.G_cns_O2 * (self.pO2_cns_th - pO2_brain), CS)

cnsIschemicO2Static(self, pO2_brain) ==
    IF pO2_brain < self.pO2_cns_th
    THEN Quot(self.G_cns_O2 * (self.pO2_cns_th - pO2_brain), CS)
    ELSE 0

cnsIschemicCO2Static(self, pCO2_brain) ==
    IF pCO2_brain > self.pCO2_cns_th
    THEN Quot(self.G_cns_CO2 * (pCO2_brain - self.pCO2_cns_th), CS)
    ELSE 0

CallCnsIschemicO2Static ==
    \E self \in ControlParameterChoices, pO2_brain \in BrainO2Choices :
        Returned("cnsIschemicO2Static",
                 <<self, pO2_brain>>,
                 cnsIschemicO2Static(self, pO2_brain))

CallCnsIschemicCO2Static ==
    \E self \in ControlParameterChoices, pCO2_brain \in BrainCO2Choices :
        Returned("cnsIschemicCO2Static",
                 <<self, pCO2_brain>>,
                 cnsIschemicCO2Static(self, pCO2_brain))

(* C16: the static CNS ischemic response is a hard threshold switch: the   *)
(* O2 response is exactly 0 when brain pO2 is at or above its threshold,   *)
(* the CO2 response is exactly 0 when brain pCO2 is at or below its        *)
(* threshold, and a response is nonzero only strictly beyond it.           *)
C16_IschemicResponseIsThresholdSwitch ==
    /\ ev.name = "cnsIschemicO2Static" =>
           /\ ev.args[2] >= ev.args[1].pO2_cns_th => ev.ret = 0
           /\ ev.ret # 0 => ev.args[2] < ev.args[1].pO2_cns_th
    /\ ev.name = "cnsIschemicCO2Static" =>
           /\ ev.args[2] <= ev.args[1].pCO2_cns_th => ev.ret = 0
           /\ ev.ret # 0 => ev.args[2] > ev.args[1].pCO2_cns_th

\* A call above the O2 threshold answered with exactly 0.
C16_Witness ==
    /\ ev.name = "cnsIschemicO2Static"
    /\ ev.args[2] > ev.args[1].pO2_cns_th
    /\ ev.ret = 0

(***************************************************************************)
(* Static responses of the sympathetic effectors: the standalone functions *)
(* of control/effectors and the methods of ControlSystemModel.             *)
(***************************************************************************)

\* Natural logarithm of x thousandths (x >= 1), in ten-thousandths:
\* x = m * 2^k with 1 <= m < 2, ln x = k ln 2 + 2 atanh((m - 1)/(m + 1)).
Ln(x) ==
    LET k  == CHOOSE n \in 0..6 : FS * 2^n <= x /\ x < FS * 2^(n + 1)
        p  == FS * 2^k
        z  == Div((x - p) * RS, x + p)
        z2 == Div(z * z, RS)
        z3 == Div(z2 * z, RS)
        z5 == Div(z3 * z2, RS)
        z7 == Div(z5 * z2, RS)
    IN  k * 6931 + 2 * (z + Div(z3, 3) + Div(z5, 5) + Div(z7, 7))

\* G * ln(f - f_min + 1), in the unit of G.
LogSaturating(G, f, f_min) == Quot(G * Ln(f - f_min + FS), RS)

\* --- control/effectors/sympathetic.py and effectors/parasympathetic.py ---

sympathetic_peripheralResistanceStatic(f_sp_delayed, f_es_min, G_R) ==
    IF f_sp_delayed >= f_es_min
    THEN LogSaturating(G_R, f_sp_delayed, f_es_min)
    ELSE 0

venousVolumeStatic(f_sv_delayed, f_es_min, G_V) ==
    IF f_sv_delayed >= f_es_min
    THEN LogSaturating(0 - G_V, f_sv_delayed, f_es_min)
    ELSE 0

sympathetic_cardiacContractilityStatic(f_sh_delayed, f_es_min, G_E) ==
    IF f_sh_delayed >= f_es_min
    THEN LogSaturating(G_E, f_sh_delayed, f_es_min)
    ELSE 0

parasympathetic_heartPeriodSympatheticStatic(f_sh_delayed, f_es_min, G_T_s) ==
    IF f_sh_delayed >= f_es_min
    THEN LogSaturating(G_T_s, f_sh_delayed, f_es_min)
    ELSE 0

\* --- ControlSystemModel ---

\* The literal floor of the venous unstressed volume (500 mL).
VenousVolumeFloor == 50000

peripheralResistanceStatic(self, f_es) ==
    IF f_es - self.f_es_inf + self.G_R = 0
    THEN "ZeroDivisionError"
    ELSE self.R_inf + Quot((self.R_max - self.R_inf) * (f_es - self.f_es_inf),
                           f_es - self.f_es_inf + self.G_R)

\* The venous response with the sign of its gain reversed.
venousUnstressedVolumeStatic_rising(self, f_es) ==
    Max(VenousVolumeFloor,
        self.Vu_0 + Quot(self.G_V * (f_es - self.f_es_inf), FS))

venousUnstressedVolumeStatic(self, f_es) ==
    Max(VenousVolumeFloor,
        self.Vu_0 - Quot(self.G_V * (f_es - self.f_es_inf), FS))

cardiacContractilityStatic(self, f_es) ==
    Min(self.E_0 + Quot(self.G_E * (f_es - self.f_es_inf), FS), self.E_max)

StandaloneStatics ==
    {"sympathetic.peripheralResistanceStatic", "sympathetic.venousVolumeStatic",
     "sympathetic.cardiacContractilityStatic",
     "parasympathetic.heartPeriodSympatheticStatic"}

ClassStatics ==
    {"peripheralResistanceStatic", "venousUnstressedVolumeStatic",
     "cardiacContractilityStatic", "heartPeriodSympatheticStatic"}

\* Gains the standalone functions are called with, in the unit of the result.
GainChoices == {130, 800}

CallStandaloneStatic ==
    \E function \in StandaloneStatics, f \in FiringRateChoices,
       G \in GainChoices :
        LET f_es_min == controlParams.f_es_inf IN
        Returned(function, <<f, f_es_min, G>>,
                 CASE function = "sympathetic.peripheralResistanceStatic" ->
                          sympathetic_peripheralResistanceStatic(f, f_es_min, G)
                   [] function = "sympathetic.venousVolumeStatic" ->
                          venousVolumeStatic(f, f_es_min, G)
                   [] function = "sympathetic.cardiacContractilityStatic" ->
                          sympathetic_cardiacContractilityStatic(f, f_es_min, G)
                   [] OTHER ->
                          parasympathetic_heartPeriodSympatheticStatic(
                              f, f_es_min, G))

CallPeripheralResistanceStatic ==
    \E self \in ControlParameterChoices, f_es \in FiringRateChoices :
        Returned("peripheralResistanceStatic", <<self, f_es>>,
                 peripheralResistanceStatic(self, f_es))

CallVenousUnstressedVolumeStatic ==
    \E self \in ControlParameterChoices, f_es \in FiringRateChoices :
        Returned("venousUnstressedVolumeStatic", <<self, f_es>>,
                 venousUnstressedVolumeStatic(self, f_es))

CallCardiacContractilityStatic ==
    \E self \in ControlParameterChoices, f_es \in FiringRateChoices :
        Returned("cardiacContractilityStatic", <<self, f_es>>,
                 cardiacContractilityStatic(self, f_es))

CallHeartPeriodSympatheticStatic ==
    \E self \in ControlParameterChoices, f_es \in FiringRateChoices :
        Returned("heartPeriodSympatheticStatic", <<self, f_es>>,
                 heartPeriodSympatheticStatic(self, f_es))

\* The gain of a static response of the class, signed as the response acts.
ClassGain ==
    CASE ev.name = "peripheralResistanceStatic" -> ev.args[1].G_R * 10
      [] ev.name = "venousUnstressedVolumeStatic" -> 0 - ev.args[1].G_V
      [] ev.name = "cardiacContractilityStatic" -> ev.args[1].G_E
      [] OTHER -> 0 - ev.args[1].G_Ts

\* The same for a standalone function: only the venous response is negated.
StandaloneGain ==
    IF ev.name = "sympathetic.venousVolumeStatic"
    THEN 0 - ev.args[3] ELSE ev.args[3]

(* C17: each sympathetic effector static function (resistance, venous      *)
(* volume, contractility, heart period) returns exactly 0 when the firing  *)
(* rate is below the threshold and G * ln(f - f_min + 1) otherwise.        *)
C17_StaticIsLogSaturatingWithZeroClamp ==
    /\ ev.name \in StandaloneStatics =>
           ev.ret = IF ev.args[1] < ev.args[2] THEN 0
                    ELSE LogSaturating(StandaloneGain, ev.args[1], ev.args[2])
    /\ ev.name \in ClassStatics =>
           ev.ret = IF ev.args[2] < ev.args[1].f_es_inf THEN 0
                    ELSE LogSaturating(ClassGain, ev.args[2],
                                       ev.args[1].f_es_inf)

\* The first half of C17, which the standalone functions satisfy.
StandaloneStaticsConform ==
    ev.name \in StandaloneStatics =>
        ev.ret = IF ev.args[1] < ev.args[2] THEN 0
                 ELSE LogSaturating(StandaloneGain, ev.args[1], ev.args[2])

\* Two consecutive calls of the same static method on the same object, at
\* firing rates f1 <= f2 that are both at or above the threshold.
OrderedCalls(function) ==
    /\ ev.name = function
    /\ ev'.name = function
    /\ ev'.args[1] = ev.args[1]
    /\ ev.args[1].f_es_inf <= ev.args[2]
    /\ ev.args[2] <= ev'.args[2]

(* C18: for firing rates f1 <= f2 above threshold,                         *)
(* peripheralResistanceStatic(f1) <= peripheralResistanceStatic(f2) and    *)
(* cardiacContractilityStatic(f1) <= cardiacContractilityStatic(f2), while *)
(* venousUnstressedVolumeStatic(f1) >= venousUnstressedVolumeStatic(f2).   *)
C18_StaticResponsesMonotone ==
    [][/\ OrderedCalls("peripheralResistanceStatic") => ev.ret <= ev'.ret
       /\ OrderedCalls("cardiacContractilityStatic") => ev.ret <= ev'.ret
       /\ OrderedCalls("venousUnstressedVolumeStatic") => ev.ret >= ev'.ret]_vars

\* A venous call above the threshold whose answer is strictly between the
\* floor and the baseline: the response varies with the rate.
C18_Witness ==
    /\ ev.name = "venousUnstressedVolumeStatic"
    /\ ev.args[2] > ev.args[1].f_es_inf
    /\ ev.ret < ev.args[1].Vu_0
    /\ ev.ret > VenousVolumeFloor

(***************************************************************************)
(* Final effector values: the standalone functions of finalEffectorValues  *)
(* and the methods of ControlSystemModel.                                  *)
(***************************************************************************)

BaselineResistanceChoices == {2000, 10000, 50000}
ResistanceChangeChoices == {-60000, -10000, 0, 5000}
MultiplierChoices == {1, 500, 1000, 2500}
AutoregulationChoices == {-500, 0, 1000, 10000}
LocalTermChoices == {-500, 0, 500}
BedChoices == {"brain", "coronary", "generic", "renal"}
BaselineVolumeChoices == {100000, 300000}
VolumeChangeChoices == {-400000, -100000, 0}
MusclePumpChoices == {-20000, 0}
SympatheticVolumeChoices == {20000, 60000, 300000}

\* The literal floors of the class methods (0.01 mmHg s/mL and 500 mL).
ResistanceFloor == 100
FinalVenousVolumeFloor == 50000

\* --- finalEffectorValues.py ---

finalPeripheralResistance(dR, R_0, x_j_O2, x_j_CO2, exercise_metabolic) ==
    IF FS + x_j_O2 = 0
    THEN "ZeroDivisionError"
    ELSE LET R_jpn == dR + R_0
             R_jp == Quot(R_jpn * (FS + x_j_CO2 + exercise_metabolic),
                          FS + x_j_O2)
         IN  Max(R_jp, Div(R_0, 100))

finalVenousVolume(dV, V_u_0, muscle_pump_effect) ==
    Max(dV + V_u_0 + muscle_pump_effect, Div(V_u_0, 10))

\* --- ControlSystemModel ---

auto_gains(bed) ==
    CASE bed = "brain" -> 300
      [] bed = "coronary" -> 500
      [] bed = "muscle" -> 400
      [] bed = "splanchnic" -> 200
      [] bed = "extrasplanchnic" -> 200
      [] bed = "generic" -> 300
      [] OTHER -> 300

ControlSystemModel_finalPeripheralResistance(self, R_baseline, mult, sigma, bed) ==
    LET k_auto == auto_gains(bed)
        denominator == FS + Quot(k_auto * sigma, FS)
    IN  IF denominator = 0
        THEN "ZeroDivisionError"
        ELSE Max(ResistanceFloor, Quot(R_baseline * mult, denominator))

finalVenousUnstressedVolume(self, Vu_sympathetic, Vu_muscle_pump) ==
    Max(FinalVenousVolumeFloor, Vu_sympathetic + Vu_muscle_pump)

CallFinalPeripheralResistance ==
    \E dR \in ResistanceChangeChoices, R_0 \in BaselineResistanceChoices,
       x_j_O2, x_j_CO2 \in LocalTermChoices, exercise_metabolic \in {0, 2000} :
        Returned("finalPeripheralResistance",
                 <<dR, R_0, x_j_O2, x_j_CO2, exercise_metabolic>>,
                 finalPeripheralResistance(dR, R_0, x_j_O2, x_j_CO2,
                                           exercise_metabolic))

CallFinalVenousVolume ==
    \E dV \in VolumeChangeChoices, V_u_0 \in BaselineVolumeChoices,
       muscle_pump_effect \in MusclePumpChoices :
        Returned("finalVenousVolume", <<dV, V_u_0, muscle_pump_effect>>,
                 finalVenousVolume(dV, V_u_0, muscle_pump_effect))

CallClassFinalPeripheralResistance ==
    \E self \in ControlParameterChoices,
       R_baseline \in BaselineResistanceChoices,
       R_sympathetic_mult \in MultiplierChoices,
       sigma_autoregulation \in AutoregulationChoices, bed \in BedChoices :
        Returned("ControlSystemModel.finalPeripheralResistance",
                 <<self, R_baseline, R_sympathetic_mult, sigma_autoregulation,
                   bed>>,
                 ControlSystemModel_finalPeripheralResistance(
                     self, R_baseline, R_sympathetic_mult,
                     sigma_autoregulation, bed))

CallFinalVenousUnstressedVolume ==
    \E self \in ControlParameterChoices,
       Vu_sympathetic \in SympatheticVolumeChoices,
       Vu_muscle_pump \in MusclePumpChoices :
        Returned("ControlSystemModel.finalVenousUnstressedVolume",
                 <<self, Vu_sympathetic, Vu_muscle_pump>>,
                 finalVenousUnstressedVolume(self, Vu_sympathetic,
                                             Vu_muscle_pump))

\* The floors hold for the standalone functions, relative to R_0 and V_u_0.
StandaloneFinalValuesClamped ==
    /\ ev.name = "finalPeripheralResistance" => ev.ret * 100 >= ev.args[2]
    /\ ev.name = "finalVenousVolume" => ev.ret * 10 >= ev.args[2]

(* C19: the final effector values are clamped relative to their baselines: *)
(* the final peripheral resistance is never below 0.01 * R0 and the final  *)
(* venous unstressed volume never below 0.1 * Vu0, whatever the            *)
(* sympathetic, autoregulation and exercise terms are.                     *)
C19_FinalValuesClampedToBaseline ==
    /\ ev.name = "finalPeripheralResistance" => ev.ret * 100 >= ev.args[2]
    /\ ev.name = "finalVenousVolume" => ev.ret * 10 >= ev.args[2]
    /\ ev.name = "ControlSystemModel.finalPeripheralResistance" =>
           ev.ret * 100 >= ev.args[2]
    /\ ev.name = "ControlSystemModel.finalVenousUnstressedVolume" =>
           ev.ret * 10 >= ev.args[1].Vu_0

NextControl ==
    \/ CallHeartPeriodEffectors
    \/ CallClassFinalHeartPeriod
    \/ CallFinalHeartPeriod
    \/ CallCnsIschemicO2Static
    \/ CallCnsIschemicCO2Static
    \/ CallStandaloneStatic
    \/ CallPeripheralResistanceStatic
    \/ CallVenousUnstressedVolumeStatic
    \/ CallCardiacContractilityStatic
    \/ CallHeartPeriodSympatheticStatic
    \/ CallFinalPeripheralResistance
    \/ CallFinalVenousVolume
    \/ CallClassFinalPeripheralResistance
    \/ CallFinalVenousUnstressedVolume

SpecControl == Init /\ [][NextControl]_vars

(***************************************************************************)
(* HeartModel: ventricular pressure from volume and activation.  Volumes,  *)
(* pressures and flows are in hundredths, elastances, the activation and   *)
(* ke in thousandths, kr in millionths.  ev.ret is <<"returned", P, Pmax,  *)
(* compared>> for a call that returns (P, Pmax), where compared tells      *)
(* whether the call tested the volume against the breakpoint, and          *)
(* <<"ZeroDivisionError">> for a call that raises.                         *)
(***************************************************************************)

\* Parameter dictionaries of a conventional and of a unimodal heart.
heartConventional ==
    [ventricle_model |-> "conventional",
     Emax_lv |-> 2950, Vu_lv |-> 1677, kr_lv |-> 375, ke_lv |-> 14,
     P0_lv |-> 150,
     Emax_rv |-> 1750, Vu_rv |-> 4080, kr_rv |-> 1400, ke_rv |-> 11,
     P0_rv |-> 150]

heartUnimodal ==
    [ventricle_model |-> "unimodal",
     E_plus_lv |-> 2950, E_minus_lv |-> -500, LVV0 |-> 1677,
     P_vb_lv |-> 40000, kr_lv |-> 375, ke_lv |-> 14, P0_lv |-> 150,
     E_plus_rv |-> 1750, E_minus_rv |-> -300, RVV0 |-> 4080,
     P_vb_rv |-> 20000, kr_rv |-> 1400, ke_rv |-> 11, P0_rv |-> 150]

\* The constructor stores E_plus and E_minus as given: equal elastances and
\* E_minus above E_plus are dictionaries it accepts.
HeartParameterChoices ==
    {heartConventional, heartUnimodal,
     [heartUnimodal EXCEPT !.E_minus_lv = 2950, !.E_minus_rv = 1750],
     [heartUnimodal EXCEPT !.E_minus_lv = 4000, !.E_minus_rv = 2500]}

VentricleVolumeChoices == {1000, 5000, 10000, 15000}
ActivationChoices == {0, 500, 1000}
OutflowChoices == {0, 20000, 50000}

\* e^x in thousandths, for x >= 0 in thousandths.
Exp(x) == Div(PS * FS, ExpNeg(x))

\* The lines from EDP to the return statement, shared by both ventricles.
PressureFromESP(ESP, P0, ke, kr, V, En, Fout) ==
    LET EDP  == Div(P0 * (Exp(Div(ke * V, CS)) - FS), FS)
        Pmax == Div(En * ESP + (FS - En) * EDP, FS)
        P    == Pmax - Div(Pmax * Div(kr * Fout, CS * FS), FS)
    IN  <<Max(P, 0), Max(Pmax, 0)>>

\* The unimodal branch: <<outcome, ESP, compared>>.
unimodalESP(E_plus, E_minus, V0, P_vb, V) ==
    IF E_plus - E_minus = 0
    THEN <<"ZeroDivisionError", 0, FALSE>>
    ELSE LET breakpoint == Quot((Div(E_plus * V0, FS) + P_vb) * FS,
                                E_plus - E_minus)
         IN  IF V < V0 THEN <<"returned", 0, FALSE>>
             ELSE IF V <= breakpoint
                  THEN <<"returned", Div(E_plus * (V - V0), FS), TRUE>>
                  ELSE <<"returned", Div(E_minus * V, FS) + P_vb, TRUE>>

lvPressure(self, LVV, En, Fout) ==
    LET esp == IF self.ventricle_model = "conventional"
               THEN <<"returned", Div(self.Emax_lv * (LVV - self.Vu_lv), FS),
                      FALSE>>
               ELSE unimodalESP(self.E_plus_lv, self.E_minus_lv, self.LVV0,
                                self.P_vb_lv, LVV)
    IN  IF esp[1] = "ZeroDivisionError"
        THEN <<"ZeroDivisionError">>
        ELSE <<"returned">>
             \o PressureFromESP(esp[2], self.P0_lv, self.ke_lv, self.kr_lv,
                                LVV, En, Fout)
             \o <<esp[3]>>

rvPressure(self, RVV, En, Fout) ==
    LET esp == IF self.ventricle_model = "conventional"
               THEN <<"returned", Div(self.Emax_rv * (RVV - self.Vu_rv), FS),
                      FALSE>>
               ELSE unimodalESP(self.E_plus_rv, self.E_minus_rv, self.RVV0,
                                self.P_vb_rv, RVV)
    IN  IF esp[1] = "ZeroDivisionError"
        THEN <<"ZeroDivisionError">>
        ELSE <<"returned">>
             \o PressureFromESP(esp[2], self.P0_rv, self.ke_rv, self.kr_rv,
                                RVV, En, Fout)
             \o <<esp[3]>>

CallLvPressure ==
    \E self \in HeartParameterChoices, LVV \in VentricleVolumeChoices,
       En \in ActivationChoices, Fout \in OutflowChoices :
        Returned("lvPressure", <<self, LVV, En, Fout>>,
                 lvPressure(self, LVV, En, Fout))

CallRvPressure ==
    \E self \in HeartParameterChoices, RVV \in VentricleVolumeChoices,
       En \in ActivationChoices, Fout \in OutflowChoices :
        Returned("rvPressure", <<self, RVV, En, Fout>>,
                 rvPressure(self, RVV, En, Fout))

NextHeart == CallLvPressure \/ CallRvPressure

SpecHeart == Init /\ [][NextHeart]_vars

PressureCalls == {"lvPressure", "rvPressure"}

\* E_plus - E_minus of the ventricle a pressure call is about.
BreakpointDenominator ==
    IF ev.name = "lvPressure"
    THEN ev.args[1].E_plus_lv - ev.args[1].E_minus_lv
    ELSE ev.args[1].E_plus_rv - ev.args[1].E_minus_rv

\* Both returned pressures are clamped at zero.
ReturnedPressuresNonNegative ==
    ev.name \in PressureCalls /\ ev.ret[1] = "returned" =>
        ev.ret[2] >= 0 /\ ev.ret[3] >= 0

(* C20: with the unimodal ESPVR selected, a zero or negative breakpoint    *)
(* denominator (E_plus - E_minus <= 0) is guarded: the pressure            *)
(* computation never divides by zero and never uses a breakpoint derived   *)
(* from a non-positive denominator.                                        *)
C20_BreakpointDenominatorGuarded ==
    (/\ ev.name \in PressureCalls
     /\ ev.args[1].ventricle_model = "unimodal"
     /\ BreakpointDenominator <= 0)
        => /\ ev.ret[1] = "returned"
           /\ ev.ret[4] = FALSE

(***************************************************************************)
(* SystemicModel: the divisions by a volume.  Each action is one call of   *)
(* a method on an object whose volume attribute was set by the caller;     *)
(* ev.ret is <<"returned", values...>> or <<"ZeroDivisionError">>.         *)
(***************************************************************************)

\* The thoracic-vein resistance parameters (KR, Rtv_0 in ten-thousandths).
thoracicVeinsParams == [KR |-> 10, Vtv_max |-> 35000, Rtv_0 |-> 250]

\* A constructed object with every parameter key given.
systemicObject == SystemicObject(systemicParams, SystemicKeys)

\* Volumes the integration can leave in Vamv and Vtv (hundredths of a mL).
CompartmentVolumeChoices == {0, 500, 10000, 22817, 25000}

\* KR * (Vtv_max / Vtv) ** 2 + Rtv_0
variableResistance(self, Vtv) ==
    IF Vtv = 0
    THEN <<"ZeroDivisionError">>
    ELSE LET q == Div(self.Vtv_max * FS, Vtv)
         IN  <<"returned", Div(Div(self.KR * q, FS) * q, FS) + self.Rtv_0>>

\* activeMuscleVenousNonlinear on an object whose Vamv may be zero: the
\* power (Vamv / Vuamv) ** (-3/2) of the collapsed regime raises at zero.
activeMuscleVenousNonlinearOutcome(s, Qamp, Pra, Pim, use_variable_resistance) ==
    IF s.Vamv <= s.Vuamv /\ s.Vamv = 0
    THEN <<"ZeroDivisionError">>
    ELSE LET r == activeMuscleVenousNonlinear(s, Qamp, Pra, Pim,
                                              use_variable_resistance)
         IN  <<"returned", r.dVamv, r.Qamv, r.Vamv, r.Pamv, r.Ramv_eff>>

CallVariableResistance ==
    \E Vtv \in CompartmentVolumeChoices :
        Returned("_variableResistance", <<Vtv>>,
                 variableResistance(thoracicVeinsParams, Vtv))

CallActiveMuscleVenousResistance ==
    \E Vamv \in CompartmentVolumeChoices :
        Returned("activeMuscleVenousResistance", <<Vamv>>,
                 <<"returned",
                   activeMuscleVenousResistance(systemicObject, Vamv)>>)

CallActiveMuscleVenousNonlinear ==
    \E Vamv \in CompartmentVolumeChoices, Qamp \in {0, 1000},
       Pra \in {0, 400}, Pim \in {0, 200, 2500},
       use_variable_resistance \in BOOLEAN :
        Returned("activeMuscleVenousNonlinear",
                 <<Vamv, Qamp, Pra, Pim, use_variable_resistance>>,
                 activeMuscleVenousNonlinearOutcome(
                     [systemicObject EXCEPT !.Vamv = Vamv],
                     Qamp, Pra, Pim, use_variable_resistance))

NextDivisions ==
    \/ CallVariableResistance
    \/ CallActiveMuscleVenousResistance
    \/ CallActiveMuscleVenousNonlinear

SpecDivisions == Init /\ [][NextDivisions]_vars

VolumeDivisionCalls ==
    {"_variableResistance", "activeMuscleVenousResistance",
     "activeMuscleVenousNonlinear"}

\* The one division that has the floor: Ramv = kr_am / max(Vamv, 1.0).
RamvFloored ==
    ev.name = "activeMuscleVenousResistance" =>
        /\ ev.ret[1] = "returned"
        /\ ev.ret[2] <= Div(systemicObject.kr_am * RS, CS)

(* C21: every division by a state-dependent volume that can reach zero     *)
(* (thoracic-vein volume in the variable resistance, active-muscle venous  *)
(* volume in the nonlinear pressure law and in Ramv) is preceded by a      *)
(* positive floor, so a zero volume never causes a division by zero.       *)
C21_VolumeDivisionsFloored ==
    ev.name \in VolumeDivisionCalls /\ ev.args[1] = 0 =>
        ev.ret[1] = "returned"

----------------------------------------------------------------------------
(* ControlSystemModel.py: the baroreflex arc of compute_derivatives.       *)
(* Firing rates count thousandths of a hertz, pressures hundredths of a    *)
(* mmHg, filter derivatives hundredths of a mmHg per second, time          *)
(* constants milliseconds, the resistance multiplier ten-thousandths.      *)

\* testParams of the __main__ block that the arc reads, next to controlParams.
baroreflexParams ==
    [P_n |-> 9200, k_ab |-> 1176, tau_ab |-> 800, tau_ab_z |-> 6370,
     k_Ab |-> 1176, tau_Ab |-> 800, tau_Ab_z |-> 6370,
     f_ab_min |-> 2520, f_ab_max |-> 47780,
     f_es_0 |-> 16110, k_es |-> 675, tau_R |-> 6000]

\* np.exp(-exponent) in thousandths, exponent in thousandths.
expMinus(exponent) ==
    IF exponent >= 0 THEN Div(ExpNeg(exponent), FS) ELSE Exp(0 - exponent)

baroreceptorAfferentActivity(P, x, x_dot, tau_z, P_n, k, f_min, f_max) ==
    LET P_tilde  == P + Quot(tau_z * x_dot, TPS)
        exponent == clip(Quot((P_tilde - P_n) * FS, k), -50000, 50000)
    IN  f_min + Div((f_max - f_min) * FS, FS + expMinus(exponent))

\* dx_dot_dt, hundredths of a mmHg per second squared
linearDerivativeFilter(P, x, x_dot, tau, tau_z) ==
    Quot((P - x) * TPS - (tau + tau_z) * x_dot, Div(tau * tau_z, TPS))

combinedBaroreceptorAfferent(f_carotid, f_aortic) ==
    Div(f_carotid + f_aortic, 2)

\* chemo_effect, cns_effect, ls_effect and cc_effect do not read a pressure;
\* the caller of this operator passes their sum.
sympatheticEfferentActivity(self, b, f_baroreceptor, other_effects) ==
    LET baro_effect == b.f_es_0
                         - Quot(b.k_es * (f_baroreceptor - b.f_ab_min), RS)
    IN  clip(baro_effect + other_effects, self.f_es_inf, 30000)

peripheralResistanceDynamics(b, R_static, x_R) ==
    Quot((R_static - x_R) * TPS, b.tau_R)

\* <<R_mult, dx_R_dt>> of the tuple sympatheticEffectors returns
sympatheticEffectors(self, b, f_es, x_R) ==
    <<x_R, peripheralResistanceDynamics(b, peripheralResistanceStatic(self, f_es), x_R)>>

\* The same with the static response returned as the multiplier.
sympatheticEffectors_static(self, b, f_es, x_R) ==
    <<peripheralResistanceStatic(self, f_es),
      peripheralResistanceDynamics(b, peripheralResistanceStatic(self, f_es), x_R)>>

\* getInitialState: <<x_ab, x_ab_dot, x_Ab, x_Ab_dot, x_R>>
getInitialState(b) == <<b.P_n, 0, b.P_n, 0, 10000>>

\* outputs f_baroreceptor, f_es, R_mult and derivatives x_ab_dot, x_R of
\* compute_derivatives(t, state, inputs) with P_carotid = P_aortic = P
ControlSystemModel_compute_derivatives(self, b, st, P, other_effects) ==
    LET f_ab == baroreceptorAfferentActivity(P, st[1], st[2], b.tau_ab_z,
                                             b.P_n, b.k_ab, b.f_ab_min, b.f_ab_max)
        f_Ab == baroreceptorAfferentActivity(P, st[3], st[4], b.tau_Ab_z,
                                             b.P_n, b.k_Ab, b.f_ab_min, b.f_ab_max)
        f_baroreceptor == combinedBaroreceptorAfferent(f_ab, f_Ab)
        f_es == sympatheticEfferentActivity(self, b, f_baroreceptor, other_effects)
        eff  == sympatheticEffectors(self, b, f_es, st[5])
    IN  <<f_baroreceptor, f_es, eff[1], eff[2],
          linearDerivativeFilter(P, st[1], st[2], b.tau_ab, b.tau_ab_z)>>

RestingPressure == 9200
HypotensionChoices == {6000, 6200, 8000}
FilterStateChoices == {8600, 9200}
FilterRateChoices == {-628, 0, 100}
ResistanceStateChoices == {8000, 10000, 12000, 23632}
OtherEffectChoices == {0, 190}

\* inputs_rest, then inputs_hypotension, on one and the same state
RestThenHypotension(st, P, other_effects) ==
    Returned("compute_derivatives", <<st, RestingPressure, P, other_effects>>,
             <<"returned",
               ControlSystemModel_compute_derivatives(
                   controlParams, baroreflexParams, st, RestingPressure, other_effects),
               ControlSystemModel_compute_derivatives(
                   controlParams, baroreflexParams, st, P, other_effects)>>)

\* the __main__ block: the state is getInitialState()
MainHypotensionTest ==
    \E P \in HypotensionChoices :
        RestThenHypotension(getInitialState(baroreflexParams), P, 0)

\* a caller passing a state of its own
CallComputeDerivatives ==
    \E x \in FilterStateChoices, x_dot \in FilterRateChoices,
       x_R \in ResistanceStateChoices, P \in HypotensionChoices,
       other_effects \in OtherEffectChoices :
        RestThenHypotension(<<x, x_dot, x, x_dot, x_R>>, P, other_effects)

NextReflex ==
    \/ MainHypotensionTest
    \/ CallComputeDerivatives

SpecReflex == Init /\ [][NextReflex]_vars

HypotensionCall == ev.name = "compute_derivatives"

\* The first two expectations: afferent firing falls, efferent firing rises.
AfferentFallsEfferentRises ==
    HypotensionCall =>
        /\ ev.ret[3][1] < ev.ret[2][1]
        /\ ev.ret[3][2] > ev.ret[2][2]

\* The multiplier output is the state x_R the caller passed, whatever the
\* pressure; what follows the pressure is the derivative of x_R.
MultiplierIsPassedState ==
    HypotensionCall =>
        /\ ev.ret[3][3] = ev.args[1][5]
        /\ ev.ret[2][3] = ev.args[1][5]
        /\ ev.ret[3][4] > ev.ret[2][4]

(* C22: when the carotid and aortic pressure inputs are stepped down from  *)
(* the resting value, the outputs show a baroreceptor afferent firing      *)
(* below the resting one, a sympathetic efferent firing above the resting  *)
(* one and a resistance multiplier R_mult above 1.0.                       *)
C22_HypotensionReflexOutputs ==
    HypotensionCall =>
        /\ ev.ret[3][1] < ev.ret[2][1]
        /\ ev.ret[3][2] > ev.ret[2][2]
        /\ ev.ret[3][3] > RS

----------------------------------------------------------------------------
(* heartModel.py: HeartModel.phi, the activation function called with one  *)
(* time.  alpha counts thousandths, n tenths, the result thousandths.      *)

\* a ** (n / 10) in millionths, for n = 10 k and n = 10 k - 1
PowN(a, n) == IF n % 10 = 0 THEN Pow(a, Div(n, 10)) ELSE PowTenths(a, n)

\* z = p * q at the cycle fraction x (millionths), in millionths
phi_z(x, alpha, n) ==
    LET a1 == Div(x * 10^3, alpha[1])
        a2 == Div(x * 10^3, alpha[2])
        m  == PowN(a1, n[1])
        o  == PowN(a2, n[2])
        p  == IF m <= 2 * PS THEN Div(m * 10^3, Div(PS + m, 10^3))
                             ELSE PS - InvOnePlus(m)
        q  == InvOnePlus(o)
    IN  MulP(p, q)

\* np.sqrt(alpha[0] * alpha[1]) in millionths, to four decimals
phi_x_max(alpha) ==
    10^2 * (CHOOSE r \in 0..(10 * FS) :
                /\ r * r <= alpha[1] * alpha[2] * 10^2
                /\ (r + 1) * (r + 1) > alpha[1] * alpha[2] * 10^2)

HeartModel_phi(heartRate, t, alpha, n) ==
    LET Tc == Div(60 * TPS, heartRate)
        tm == t % Tc
        x  == Div(tm * PS, Tc)
        z  == phi_z(x, alpha, n)
        z_max == phi_z(phi_x_max(alpha), alpha, n)
        En == IF z_max > 0 THEN Div(z * FS, z_max) ELSE 0
    IN  IF alpha[1] <= 0 \/ alpha[2] <= 0 THEN 0 ELSE Min(Max(En, 0), FS)

\* The same without the final min(max(En, 0.0), 1.0).
HeartModel_phi_unclamped(heartRate, t, alpha, n) ==
    LET Tc == Div(60 * TPS, heartRate)
        tm == t % Tc
        x  == Div(tm * PS, Tc)
        z  == phi_z(x, alpha, n)
        z_max == phi_z(phi_x_max(alpha), alpha, n)
    IN  IF alpha[1] <= 0 \/ alpha[2] <= 0 THEN 0
        ELSE IF z_max > 0 THEN Div(z * FS, z_max) ELSE 0

\* <<alpha, n>>: the values of cardiovascular_model.py, a pair of equal
\* exponents, and a non-positive alpha
TimingChoices ==
    {<<<<alpha1, alpha2>>, <<n1, n2>>>>,
     <<<<300, 500>>, <<20, 20>>>>,
     <<<<0, 400>>, <<n1, n2>>>>}
PhiTick == 8
MaxPhiTime == 1600
PhiTimeChoices == {k * PhiTick : k \in 0..Div(MaxPhiTime, PhiTick)}
PhiHeartRates == {75}

CallPhi ==
    \E heartRate \in PhiHeartRates, t \in PhiTimeChoices, c \in TimingChoices :
        Returned("phi", <<heartRate, t, c[1], c[2]>>,
                 <<"returned", HeartModel_phi(heartRate, t, c[1], c[2])>>)

NextPhi == CallPhi

SpecPhi == Init /\ [][NextPhi]_vars

PhiCycleLength(heartRate) == Div(60 * TPS, heartRate)

\* Two calls with the same heart rate, alpha and n at two different times of
\* one and the same cardiac cycle.
SameCycleCalls ==
    /\ ev.name = "phi" /\ ev'.name = "phi"
    /\ ev'.args[1] = ev.args[1]
    /\ ev'.args[3] = ev.args[3] /\ ev'.args[4] = ev.args[4]
    /\ Div(ev'.args[2], PhiCycleLength(ev.args[1]))
         = Div(ev.args[2], PhiCycleLength(ev.args[1]))
    /\ ev'.args[2] # ev.args[2]

\* The first half of the claim: the value is within [0, 1].
PhiWithinUnitInterval ==
    ev.name = "phi" => 0 <= ev.ret[2] /\ ev.ret[2] <= FS

\* With equal exponents the normalising point is the peak: at most one
\* time of a cycle returns 1.
PhiSinglePeakForEqualExponents ==
    [][SameCycleCalls /\ ev.args[4][1] = ev.args[4][2]
          => ~(ev.ret[2] = FS /\ ev'.ret[2] = FS)]_vars

(* C23: the activation phi(t, alpha, n) is within [0, 1] for every t, and  *)
(* within a cardiac cycle it has the value 1 at exactly one point.         *)
C23_ActivationUnitRangeUniquePeak ==
    [][/\ ev'.name = "phi" => 0 <= ev'.ret[2] /\ ev'.ret[2] <= FS
       /\ SameCycleCalls => ~(ev.ret[2] = FS /\ ev'.ret[2] = FS)]_vars

----------------------------------------------------------------------------
(* heart/heartModel1.py and tissueGasExchange.py: compute_derivatives of   *)
(* a component object.  The object of a call is the one the previous call  *)
(* of the same component left behind, or the constructed one.              *)
(* A heart object is <<LVV, RVV, LAP, RAP, LVP, RVP>>.                     *)

\* The parameter dictionary of a conventional heart: heartConventional and
\* the atrial and valve entries the constructor of heartModel1 reads.
heart1Params ==
    [Emax_lv |-> 2950, Vu_lv |-> 1677, kr_lv |-> 375, ke_lv |-> 14, P0_lv |-> 150,
     Emax_rv |-> 1750, Vu_rv |-> 4080, kr_rv |-> 1400, ke_rv |-> 11, P0_rv |-> 150,
     Cla |-> 1923, Vu_la |-> 1670, Cra |-> 3125, Vu_ra |-> 2500,
     Rmv |-> 25, Rav |-> 25, Rtv |-> 25, Rpv |-> 25,
     Rpv_resistance |-> 56, Rsv |-> 380, Rev |-> 400]

\* __init__: LVV_init and RVV_init default to 100.0, the pressures are 0.0
Heart1Constructed == <<10000, 10000, 0, 0, 0, 0>>

\* e^x in thousandths, x in thousandths of either sign
ExpSigned(x) == IF x >= 0 THEN Exp(x) ELSE Div(ExpNeg(0 - x), FS)

\* <<V_new, P, Pmax>> of leftVentricleConventional and
\* rightVentricleConventional
ventricleConventional(Emax, Vu, P0, ke, kr, V, En, Fin, Fout, h) ==
    LET V_new == V + Div((Fin - Fout) * h, TPS)
        ESP   == Div(Emax * (V_new - Vu), FS)
        EDP   == Div(P0 * (ExpSigned(Div(ke * V_new, CS)) - FS), FS)
        Pmax  == Div(En * ESP + (FS - En) * EDP, FS)
        P     == Pmax - Div(Pmax * Div(kr * Div(Fout, CS), FS), FS)
    IN  <<V_new, P, Pmax>>

leftVentricleConventional(self, hs, En, Fin, Fout, h) ==
    ventricleConventional(self.Emax_lv, self.Vu_lv, self.P0_lv, self.ke_lv,
                          self.kr_lv, hs[1], En, Fin, Fout, h)

rightVentricleConventional(self, hs, En, Fin, Fout, h) ==
    ventricleConventional(self.Emax_rv, self.Vu_rv, self.P0_rv, self.ke_rv,
                          self.kr_rv, hs[2], En, Fin, Fout, h)

\* Steps 2 to 7 of compute_derivatives.  c = <<E_lv, E_rv, Pas, Ppa, Ppv,
\* Psv, Pev, h>>.  The result is <<object after, derivatives, trace>> with
\* derivatives = <<dLVV, dRVV, dLAP, dRAP>> and trace = <<LVP and RVP of the
\* first pass, Fmv, Fav, Ftv, Fpv, LVP and RVP of the second pass>>.
Heart1_compute_derivatives(self, hs, c) ==
    LET LVP1 == leftVentricleConventional(self, hs, c[1], 0, 0, c[8])[2]
        RVP1 == rightVentricleConventional(self, hs, c[2], 0, 0, c[8])[2]
        Fmv  == valveFlow(hs[3], LVP1, self.Rmv)
        Fav  == valveFlow(LVP1, c[3], self.Rav)
        Ftv  == valveFlow(hs[4], RVP1, self.Rtv)
        Fpv  == valveFlow(RVP1, c[4], self.Rpv)
        lv   == leftVentricleConventional(self, hs, c[1], Fmv, Fav, c[8])
        rv   == rightVentricleConventional(self, hs, c[2], Ftv, Fpv, c[8])
        dLAP == left_atrium(c[5], hs[3], self.Rpv_resistance, Fmv, self.Cla)
        dRAP == right_atrium(c[6], c[7], hs[4], self.Rsv, self.Rev, Ftv, self.Cra)
    IN  <<<<lv[1], rv[1], hs[3], hs[4], lv[2], rv[2]>>,
          <<Fmv - Fav, Ftv - Fpv, dLAP, dRAP>>,
          <<LVP1, RVP1, Fmv, Fav, Ftv, Fpv, lv[2], rv[2]>>>>

\* The same with the ventricles evaluated once, with zero flows.
Heart1_compute_derivatives_onePass(self, hs, c) ==
    LET LVP1 == leftVentricleConventional(self, hs, c[1], 0, 0, c[8])[2]
        RVP1 == rightVentricleConventional(self, hs, c[2], 0, 0, c[8])[2]
        Fmv  == valveFlow(hs[3], LVP1, self.Rmv)
        Fav  == valveFlow(LVP1, c[3], self.Rav)
        Ftv  == valveFlow(hs[4], RVP1, self.Rtv)
        Fpv  == valveFlow(RVP1, c[4], self.Rpv)
        dLAP == left_atrium(c[5], hs[3], self.Rpv_resistance, Fmv, self.Cla)
        dRAP == right_atrium(c[6], c[7], hs[4], self.Rsv, self.Rev, Ftv, self.Cra)
    IN  <<<<hs[1] + Div((Fmv - Fav) * c[8], TPS), hs[2] + Div((Ftv - Fpv) * c[8], TPS),
            hs[3], hs[4], LVP1, RVP1>>,
          <<Fmv - Fav, Ftv - Fpv, dLAP, dRAP>>,
          <<LVP1, RVP1, Fmv, Fav, Ftv, Fpv, LVP1, RVP1>>>>

MaxComponentCalls == 2
MaxHeartVolume == 15000
ArterialPressureChoices == {8000, 24000}
PulmonaryVenousChoices == {500, 1000}
HeartStepChoices == {1, 2}

HeartCallName == "HeartModel.compute_derivatives"

\* the object and the number of the call about to be made
ComponentObject(name, constructed) ==
    IF ev.name = name THEN ev.ret[2] ELSE constructed
ComponentCallNumber(name) ==
    IF ev.name = name THEN ev.args[3] + 1 ELSE 1

HeartComputeDerivatives ==
    \E E_lv, E_rv \in ActivationChoices, Pas \in ArterialPressureChoices,
       Ppv \in PulmonaryVenousChoices, h \in HeartStepChoices :
        LET hs == ComponentObject(HeartCallName, Heart1Constructed)
            k  == ComponentCallNumber(HeartCallName)
            c  == <<E_lv, E_rv, Pas, 1500, Ppv, 300, 300, h>>
        IN  /\ k <= MaxComponentCalls
            /\ hs[1] \in 0..MaxHeartVolume /\ hs[2] \in 0..MaxHeartVolume
            /\ Returned(HeartCallName, <<hs, c, k>>,
                        <<"returned">> \o Heart1_compute_derivatives(heart1Params, hs, c))

(* A tissue object is <<O2 concentrations, CO2 concentrations>> of the     *)
(* beds hp, bp, amp, rmp, ep, sp, in ten-thousandths.                      *)
TissueBeds == 1..6

\* VT (mL, hundredths), MO2 and MCO2 (ten-thousandths) by bed
tissueParams ==
    [VT   |-> <<28400, 130000, 1560000, 1560000, 26200, 267300>>,
     MO2  |-> <<240000, 475020, 258000, 258000, 146830, 1084190>>,
     MCO2 |-> <<201600, 399610, 216720, 216720, 123370, 910720>>]

\* __init__: every O2 concentration 150.0, every CO2 concentration 500.0
TissueConstructed ==
    <<[b \in TissueBeds |-> 1500000], [b \in TissueBeds |-> 5000000]>>

\* dC = (Q * (Ca - C) -/+ M) / (VT + V) of the twelve exchange methods
tissueDerivative(C, V, Q, Ca, M, VT) ==
    Quot((Div(Q * (Ca - C), CS) + M) * CS, VT + V)

\* C_new = C + dC * dt
tissueNew(C, dC, step) == C + Quot(dC * step, TPS)

\* c = <<V, Q, Ca_O2, Ca_CO2, dt>>, every bed with the same volume and flow
Tissue_compute_derivatives(self, ts, c) ==
    LET dO2  == [b \in TissueBeds |->
                   tissueDerivative(ts[1][b], c[1], c[2], c[3], 0 - self.MO2[b], self.VT[b])]
        dCO2 == [b \in TissueBeds |->
                   tissueDerivative(ts[2][b], c[1], c[2], c[4], self.MCO2[b], self.VT[b])]
    IN  <<<<[b \in TissueBeds |-> tissueNew(ts[1][b], dO2[b], c[5])],
            [b \in TissueBeds |-> tissueNew(ts[2][b], dCO2[b], c[5])]>>,
          <<dO2, dCO2>>>>

TissueCallName == "TissueGasExchangeModel.compute_derivatives"
TissueVolumeChoices == {1000, 50000}
TissueFlowChoices == {0, 500}
ArterialO2Choices == {1800000, 2000000}
TissueStepChoices == {1, 100}

TissueComputeDerivatives ==
    \E V \in TissueVolumeChoices, Q \in TissueFlowChoices,
       Ca_O2 \in ArterialO2Choices, step \in TissueStepChoices :
        LET ts == ComponentObject(TissueCallName, TissueConstructed)
            k  == ComponentCallNumber(TissueCallName)
            c  == <<V, Q, Ca_O2, 4800000, step>>
        IN  /\ k <= MaxComponentCalls
            /\ Returned(TissueCallName, <<ts, c, k>>,
                        <<"returned">> \o Tissue_compute_derivatives(tissueParams, ts, c))

NextComponents ==
    \/ HeartComputeDerivatives
    \/ TissueComputeDerivatives

SpecComponents == Init /\ [][NextComponents]_vars

\* The atrial pressures are states the call leaves alone.
AtrialPressuresUnchanged ==
    ev.name = HeartCallName =>
        ev.ret[2][3] = ev.args[1][3] /\ ev.ret[2][4] = ev.args[1][4]

\* What the call does to a ventricular volume is the Euler update itself.
VolumeAdvancedByEulerStep ==
    ev.name = HeartCallName =>
        /\ ev.ret[2][1] = ev.args[1][1] + Div(ev.ret[3][1] * ev.args[2][8], TPS)
        /\ ev.ret[2][2] = ev.args[1][2] + Div(ev.ret[3][2] * ev.args[2][8], TPS)

(* C24: a call of a component's compute_derivatives returns derivatives    *)
(* and outputs and leaves every ODE state variable of the component as it  *)
(* was: the ventricular volumes and atrial pressures of the heart, the     *)
(* tissue concentrations of the tissue gas exchange.                       *)
C24_ComputeDerivativesLeavesStateAlone ==
    /\ ev.name = HeartCallName =>
          \A k \in 1..4 : ev.ret[2][k] = ev.args[1][k]
    /\ ev.name = TissueCallName => ev.ret[2] = ev.args[1]

----------------------------------------------------------------------------
(* venousGasTransportModel.py.  A venous object is <<O2 of the six beds,   *)
(* CO2 of the six beds, Cv_O2, Cv_CO2>>, the beds being hv, bv, amv, rmv,  *)
(* ev, sv; concentrations count ten-thousandths.                           *)

\* __init__: every O2 concentration 140.0, every CO2 concentration 520.0
VenousConstructed ==
    <<[b \in TissueBeds |-> 1400000], [b \in TissueBeds |-> 5200000],
      1400000, 5200000>>

\* dC = Q * (C_tissue - C) / V of the twelve bed methods
venousBedDerivative(C, V, Q, C_tissue) == Quot(Q * (C_tissue - C), V)

RECURSIVE MixingSum(_, _, _, _)
\* Qhv * (Chv - Cv) + ... + Qsv * (Csv - Cv), over the beds 1..b
MixingSum(bedC, Cv, Qv, b) ==
    IF b = 0 THEN 0 ELSE MixingSum(bedC, Cv, Qv, b - 1) + Qv[b] * (bedC[b] - Cv)

\* dCv of thoracicVenousO2 and thoracicVenousCO2, reading the bed
\* concentrations bedC
thoracicVenous(bedC, Cv, Vtv, Qv) == Quot(MixingSum(bedC, Cv, Qv, 6), Vtv)

\* c = <<V, Q, Vtv, Qv, tissue O2, tissue CO2, dt>> with Qv, tissue O2 and
\* tissue CO2 given by bed.  The bed attributes are assigned before the
\* thoracic methods are called.
Venous_compute_derivatives(vs, c) ==
    LET dO2   == [b \in TissueBeds |-> venousBedDerivative(vs[1][b], c[1], c[2], c[5][b])]
        dCO2  == [b \in TissueBeds |-> venousBedDerivative(vs[2][b], c[1], c[2], c[6][b])]
        newO2  == [b \in TissueBeds |-> vs[1][b] + Quot(dO2[b] * c[7], TPS)]
        newCO2 == [b \in TissueBeds |-> vs[2][b] + Quot(dCO2[b] * c[7], TPS)]
        dCv_O2  == thoracicVenous(newO2, vs[3], c[3], c[4])
        dCv_CO2 == thoracicVenous(newCO2, vs[4], c[3], c[4])
    IN  <<<<newO2, newCO2, vs[3] + Quot(dCv_O2 * c[7], TPS),
            vs[4] + Quot(dCv_CO2 * c[7], TPS)>>,
          <<dO2, dCO2, dCv_O2, dCv_CO2>>>>

\* The same with the thoracic methods called before the assignments.
Venous_compute_derivatives_jacobi(vs, c) ==
    LET dO2   == [b \in TissueBeds |-> venousBedDerivative(vs[1][b], c[1], c[2], c[5][b])]
        dCO2  == [b \in TissueBeds |-> venousBedDerivative(vs[2][b], c[1], c[2], c[6][b])]
        dCv_O2  == thoracicVenous(vs[1], vs[3], c[3], c[4])
        dCv_CO2 == thoracicVenous(vs[2], vs[4], c[3], c[4])
    IN  <<<<[b \in TissueBeds |-> vs[1][b] + Quot(dO2[b] * c[7], TPS)],
            [b \in TissueBeds |-> vs[2][b] + Quot(dCO2[b] * c[7], TPS)],
            vs[3] + Quot(dCv_O2 * c[7], TPS), vs[4] + Quot(dCv_CO2 * c[7], TPS)>>,
          <<dO2, dCO2, dCv_O2, dCv_CO2>>>>

VenousCallName == "VenousGasTransportModel.compute_derivatives"
MaxVenousCalls == 2
VenousVolumeChoices == {5000, 20000}
VenousFlowChoices == {0, 500}
ThoracicFlowChoices ==
    {[b \in TissueBeds |-> 0], [b \in TissueBeds |-> 500],
     [b \in TissueBeds |-> 100 * b]}
TissueO2Choices ==
    {[b \in TissueBeds |-> 1400000], [b \in TissueBeds |-> 1500000],
     [b \in TissueBeds |-> 1300000 + 20000 * b]}
VenousStepChoices == {1, 100}

VenousComputeDerivatives ==
    \E V \in VenousVolumeChoices, Q \in VenousFlowChoices,
       Qv \in ThoracicFlowChoices, tissueO2 \in TissueO2Choices,
       step \in VenousStepChoices :
        LET vs == ComponentObject(VenousCallName, VenousConstructed)
            k  == ComponentCallNumber(VenousCallName)
            c  == <<V, Q, 35000, Qv, tissueO2, [b \in TissueBeds |-> 5000000], step>>
        IN  /\ k <= MaxVenousCalls
            /\ Returned(VenousCallName, <<vs, c, k>>,
                        <<"returned">> \o Venous_compute_derivatives(vs, c))

NextVenous == VenousComputeDerivatives

SpecVenous == Init /\ [][NextVenous]_vars

\* Each bed derivative is computed from the bed's own start-of-step value.
BedDerivativesFromStartOfStep ==
    ev.name = VenousCallName =>
        \A b \in TissueBeds :
            /\ ev.ret[3][1][b] = venousBedDerivative(ev.args[1][1][b], ev.args[2][1],
                                                    ev.args[2][2], ev.args[2][5][b])
            /\ ev.ret[3][2][b] = venousBedDerivative(ev.args[1][2][b], ev.args[2][1],
                                                    ev.args[2][2], ev.args[2][6][b])

\* The mixed-venous derivatives are those of the bed values the call has
\* just stored.
MixedVenousFromStoredBeds ==
    ev.name = VenousCallName =>
        /\ ev.ret[3][3] = thoracicVenous(ev.ret[2][1], ev.args[1][3],
                                         ev.args[2][3], ev.args[2][4])
        /\ ev.ret[3][4] = thoracicVenous(ev.ret[2][2], ev.args[1][4],
                                         ev.args[2][3], ev.args[2][4])

(* C25: the mixed-venous O2 and CO2 update of a step is computed from the  *)
(* six per-bed venous concentrations as they were at the start of the      *)
(* step, never from bed concentrations updated earlier in the same step.   *)
C25_MixedVenousFromStartOfStep ==
    ev.name = VenousCallName =>
        /\ ev.ret[3][3] = thoracicVenous(ev.args[1][1], ev.args[1][3],
                                         ev.args[2][3], ev.args[2][4])
        /\ ev.ret[3][4] = thoracicVenous(ev.args[1][2], ev.args[1][4],
                                         ev.args[2][3], ev.args[2][4])

----------------------------------------------------------------------------
(* heartModel.py: HeartModel.compute_derivatives, which takes the states   *)
(* and the valve flows of the previous step as arguments.                  *)

heartModelParams ==
    [ventricle_model |-> "conventional",
     Emax_lv |-> 2950, Vu_lv |-> 1677, kr_lv |-> 375, ke_lv |-> 14, P0_lv |-> 150,
     Emax_rv |-> 1750, Vu_rv |-> 4080, kr_rv |-> 1400, ke_rv |-> 11, P0_rv |-> 150,
     Cla |-> 1923, Vu_la |-> 1670, Cra |-> 3125, Vu_ra |-> 2500,
     Rmv |-> 25, Rav |-> 25, Rtv |-> 25, Rpv |-> 25,
     Rpv_resistance |-> 56, Rsv |-> 380, Rev |-> 400]

\* c = <<E_lv, E_rv, LVV, RVV, LAP, RAP, Pas, Ppa, Ppv, Psv, Pev, Fav, Fpv>>.
\* The result is <<LVP, RVP, Fmv, Fav_new, Ftv, Fpv_new>> followed by the
\* derivatives <<dLVV, dRVV, dLAP, dRAP>>; the septal volume, the cardiac
\* power and the oxygen consumption are outputs computed from these.
HeartModel_compute_derivatives(self, c) ==
    LET LVP == lvPressure(self, c[3], c[1], c[12])[2]
        RVP == rvPressure(self, c[4], c[2], c[13])[2]
        Fmv == valveFlow(c[5], LVP, self.Rmv)
        Fav_new == valveFlow(LVP, c[7], self.Rav)
        Ftv == valveFlow(c[6], RVP, self.Rtv)
        Fpv_new == valveFlow(RVP, c[8], self.Rpv)
        dLAP == left_atrium(c[9], c[5], self.Rpv_resistance, Fmv, self.Cla)
        dRAP == right_atrium(c[10], c[11], c[6], self.Rsv, self.Rev, Ftv, self.Cra)
    IN  <<<<LVP, RVP, Fmv, Fav_new, Ftv, Fpv_new>>,
          <<Fmv - Fav_new, Ftv - Fpv_new, dLAP, dRAP>>>>

HeartModelCallName == "heartModel.HeartModel.compute_derivatives"
AtrialPressureChoices == {0, 1000}
PreviousFlowChoices == {0, 20000}
TwoPassVolumeChoices == {1000, 5000, 6000}

HeartModelComputeDerivatives ==
    \E E_lv \in ActivationChoices, LVV, RVV \in TwoPassVolumeChoices,
       LAP \in AtrialPressureChoices, Pas \in ArterialPressureChoices,
       Fav, Fpv \in PreviousFlowChoices :
        LET c == <<E_lv, E_lv, LVV, RVV, LAP, 300, Pas, 1500, 1000, 300, 300, Fav, Fpv>>
        IN  Returned(HeartModelCallName, <<heartModelParams, c>>,
                     <<"returned">> \o HeartModel_compute_derivatives(heartModelParams, c))

NextTwoPass ==
    \/ HeartComputeDerivatives
    \/ HeartModelComputeDerivatives

SpecTwoPass == Init /\ [][NextTwoPass]_vars

\* heart/heartModel1.py follows the order: zero-flow pressures, valve flows
\* from them, pressures again with those flows, which are the ones stored
\* and returned.
Heart1TwoPassOrder ==
    ev.name = HeartCallName =>
        LET hs == ev.args[1]
            c  == ev.args[2]
            tr == ev.ret[4]
        IN  /\ tr[1] = leftVentricleConventional(heart1Params, hs, c[1], 0, 0, c[8])[2]
            /\ tr[2] = rightVentricleConventional(heart1Params, hs, c[2], 0, 0, c[8])[2]
            /\ tr[3] = valveFlow(hs[3], tr[1], heart1Params.Rmv)
            /\ tr[4] = valveFlow(tr[1], c[3], heart1Params.Rav)
            /\ tr[5] = valveFlow(hs[4], tr[2], heart1Params.Rtv)
            /\ tr[6] = valveFlow(tr[2], c[4], heart1Params.Rpv)
            /\ tr[7] = leftVentricleConventional(heart1Params, hs, c[1], tr[3], tr[4], c[8])[2]
            /\ tr[8] = rightVentricleConventional(heart1Params, hs, c[2], tr[5], tr[6], c[8])[2]
            /\ ev.ret[2][5] = tr[7] /\ ev.ret[2][6] = tr[8]

\* heartModel.py computes each pressure once, with the outflow it is passed.
HeartModelSinglePass ==
    ev.name = HeartModelCallName =>
        LET c == ev.args[2]
        IN  /\ ev.ret[2][1] = lvPressure(ev.args[1], c[3], c[1], c[12])[2]
            /\ ev.ret[2][2] = rvPressure(ev.args[1], c[4], c[2], c[13])[2]

(* C26: within one step the ventricular pressures are first computed with  *)
(* zero flows, the valve flows are computed from those pressures, and the  *)
(* pressures are recomputed with those valve flows; the recomputed         *)
(* pressures are the result.                                               *)
C26_TwoPassPressureFlowOrder ==
    /\ Heart1TwoPassOrder
    /\ ev.name = HeartModelCallName =>
          LET self == ev.args[1]
              c    == ev.args[2]
              LVP0 == lvPressure(self, c[3], c[1], 0)[2]
              RVP0 == rvPressure(self, c[4], c[2], 0)[2]
          IN  /\ ev.ret[2][4] = valveFlow(LVP0, c[7], self.Rav)
              /\ ev.ret[2][6] = valveFlow(RVP0, c[8], self.Rpv)
              /\ ev.ret[2][1] = lvPressure(self, c[3], c[1], ev.ret[2][4])[2]
              /\ ev.ret[2][2] = rvPressure(self, c[4], c[2], ev.ret[2][6])[2]

----------------------------------------------------------------------------
(* The muscle pump activation: SystemicModel.musclePumpActivation and the  *)
(* function of systemicCirculation/activeMuscleVenous.py.  Times count     *)
(* milliseconds.                                                           *)

\* <<psi, alpha>> of the standalone function
activeMuscleVenous_musclePumpActivation(t, Tc, Tim) ==
    LET alpha == Div((t % Tc) * FS, Tc)
    IN  <<IF alpha <= Div(Tim * FS, Tc)
          THEN SinPi(Div(Div(Tim * FS, Tc) * alpha, FS))
          ELSE 0,
          alpha>>

\* Tc and Tim: the defaults of __init__ (1.0, 0.4), systemicParams
\* (0.75, 1.0) and a short contraction in a short cycle
PumpCycleChoices == {1000, 750}
PumpContractionChoices == {400, 1000, 150}
PumpTick == 25
MaxPumpTime == 2000
PumpTimeChoices == {k * PumpTick : k \in 0..Div(MaxPumpTime, PumpTick)}

CallMusclePumpActivation ==
    \E Tc \in PumpCycleChoices, Tim \in PumpContractionChoices, t \in PumpTimeChoices :
        Returned("musclePumpActivation", <<Tc, Tim, t>>,
                 <<"returned", musclePumpActivation([Tc |-> Tc, Tim |-> Tim], t).psi>>)

CallStandaloneMusclePumpActivation ==
    \E Tc \in PumpCycleChoices, Tim \in PumpContractionChoices, t \in PumpTimeChoices :
        Returned("activeMuscleVenous.musclePumpActivation", <<Tc, Tim, t>>,
                 <<"returned", activeMuscleVenous_musclePumpActivation(t, Tc, Tim)[1]>>)

NextPump ==
    \/ CallMusclePumpActivation
    \/ CallStandaloneMusclePumpActivation

SpecPump == Init /\ [][NextPump]_vars

PumpCalls == {"musclePumpActivation", "activeMuscleVenous.musclePumpActivation"}

\* The time into the cycle is beyond the contraction: (t mod Tc) / Tc is
\* above Tim / Tc.
OutsideActivationWindow ==
    ev.name \in PumpCalls /\ ev.args[3] % ev.args[1] > ev.args[2]

\* Inside the window the activation is zero only where the sine is: at the
\* start of the cycle.
ActiveInsideWindow ==
    ev.name \in PumpCalls /\ ~OutsideActivationWindow /\ ev.args[3] % ev.args[1] > 0
        /\ ev.args[2] <= ev.args[1]
        => ev.ret[2] > 0

----------------------------------------------------------------------------
(* lungMechanicsModel.py: the period of the respiratory timing.            *)

\* At the intensities 0.2 and 1.0 the two fractions add up to one.
TimingFractionsSumToOneAtKnee ==
    Len(lung_out) > 0 /\ lung.exercise_intensity \in {200, 1000}
        => lung.Ti + lung.Te = Period

\* The durations of the resting breath are 0.4 and 0.35 of the period.
RestingBreathIsThreeQuarters ==
    Len(lung_out) > 0 /\ lung.exercise_intensity = 0
        => 4 * (lung.Ti + lung.Te) = 3 * Period

(* C28: for every exercise intensity in [0, 1] and every respiratory rate  *)
(* the durations Ti and Te returned by respiration sum to the period       *)
(* 60 / RR over which the cycle time wraps, and the cycle time b never     *)
(* exceeds Ti + Te.                                                        *)
C28_TimingSumsToPeriod ==
    \A k \in 1..Len(lung_out) :
        /\ lung.Ti + lung.Te = Period
        /\ lung_out[k].b <= lung.Ti + lung.Te

----------------------------------------------------------------------------
(* systemicModel.py: activeMuscleVenousNonlinear on an object that keeps   *)
(* the attribute Pamv from one call to the next.  The integration driver   *)
(* writes Vamv between the calls.                                          *)

MuscleVeinCallName == "SystemicModel.activeMuscleVenousNonlinear"
MaxMuscleVeinCalls == 2
MuscleVeinVolumeChoices == {10000, 22817, 25000, 30000}

\* self.Pamv as the previous call left it, 0.0 after __init__
StoredPamv ==
    IF ev.name = MuscleVeinCallName THEN ev.ret[5] ELSE systemicObject.Pamv

ActiveMuscleVenousStep ==
    \E Vamv \in MuscleVeinVolumeChoices, Qamp \in {0, 1000}, Pra \in {0, 400},
       Pim \in {0, 200, 2500}, use_variable_resistance \in BOOLEAN :
        LET k == ComponentCallNumber(MuscleVeinCallName)
            s == [systemicObject EXCEPT !.Vamv = Vamv, !.Pamv = StoredPamv]
        IN  /\ k <= MaxMuscleVeinCalls
            /\ Returned(MuscleVeinCallName,
                        <<<<Vamv, Qamp, Pra, Pim, use_variable_resistance>>,
                          StoredPamv, k>>,
                        activeMuscleVenousNonlinearOutcome(
                            s, Qamp, Pra, Pim, use_variable_resistance))

NextMuscleVein == ActiveMuscleVenousStep

SpecMuscleVein == Init /\ [][NextMuscleVein]_vars

\* The outflow of dVamv is driven by the pressure stored before the call.
OutflowFromStoredPamv ==
    ev.name = MuscleVeinCallName =>
        ev.ret[2] = ev.args[1][2]
                      - (Flow(ev.args[2], ev.args[1][3], ev.ret[6])
                           + systemicObject.dVuamv)

\* Qamv is driven by the pressure of the current volume, which is returned.
QamvFromCurrentPamv ==
    ev.name = MuscleVeinCallName =>
        ev.ret[3] = Flow(ev.ret[5], systemicObject.Ptv, systemicObject.Rtv)

(* C29: within one call the outflow term of the active-muscle venous       *)
(* volume derivative dVamv and the flow Qamv are computed from one and the *)
(* same pressure Pamv, the one of the current volume Vamv and the current  *)
(* intramuscular pressure.                                                 *)
C29_OutflowAndQamvShareCurrentPamv ==
    ev.name = MuscleVeinCallName =>
        /\ ev.ret[3] = Flow(ev.ret[5], systemicObject.Ptv, systemicObject.Rtv)
        /\ ev.ret[2] = ev.args[1][2]
                         - (Flow(ev.ret[5], ev.args[1][3], ev.ret[6])
                              + systemicObject.dVuamv)


(***************************************************************************)
(* The respiratory phase handed from lung mechanics to lung gas transfer   *)
(* src/lungMechanicsModel.py phases, compute_derivatives;                  *)
(* src/lunggasTransportModel.py LungGasTransferModel.compute_derivatives   *)
(***************************************************************************)

(* The attributes of LungGasTransferModel.__init__ that the dead-space     *)
(* balances read: VD in hundredths of a mL, the inspired fractions in      *)
(* ten-thousandths.                                                        *)
LungGasTransferModel(VD, FI_O2, FI_CO2) ==
    [VD |-> VD, FI_O2 |-> FI_O2, FI_CO2 |-> FI_CO2]

GasTransferConstructed == LungGasTransferModel(15000, 2100, 4)

(* The dead-space balances with expiration selected by phase 0, as the     *)
(* docstring words it.                                                     *)
LungGasTransfer_compute_derivatives_zeroIsExpiration(self, c, phase) ==
    <<IF phase # 0 THEN Quot(c[5] * (self.FI_O2 - c[1]), self.VD)
                   ELSE Quot(c[6] * (c[1] - c[3]), self.VD),
      IF phase # 0 THEN Quot(c[5] * (self.FI_CO2 - c[2]), self.VD)
                   ELSE Quot(c[6] * (c[2] - c[4]), self.VD)>>

(* compute_derivatives, steps 1 and 2: <<dFD_O2, dFD_CO2>> in              *)
(* ten-thousandths per second.  c = <<FD_O2, FD_CO2, FA_O2, FA_CO2, V_dot, *)
(* VA_dot>>, the flows in hundredths of a mL/s.                            *)
LungGasTransfer_compute_derivatives(self, c, phase) ==
    <<IF phase = 1 THEN Quot(c[5] * (self.FI_O2 - c[1]), self.VD)
                   ELSE Quot(c[6] * (c[1] - c[3]), self.VD),
      IF phase = 1 THEN Quot(c[5] * (self.FI_CO2 - c[2]), self.VD)
                   ELSE Quot(c[6] * (c[2] - c[4]), self.VD)>>

(* The two branches of the balances, written out *)
InspirationBalance(self, c) ==
    <<Quot(c[5] * (self.FI_O2 - c[1]), self.VD),
      Quot(c[5] * (self.FI_CO2 - c[2]), self.VD)>>

ExpirationBalance(self, c) ==
    <<Quot(c[6] * (c[1] - c[3]), self.VD),
      Quot(c[6] * (c[2] - c[4]), self.VD)>>

GasTransferCallName == "LungGasTransferModel.compute_derivatives"

DeadSpaceO2Choices == {1800, 1500}      \* FD_O2
AirFlowChoices == {30000, -20000}       \* V_dot
AlveolarFlowChoices == {25000, -14000}  \* VA_dot

GasTransferInputs ==
    {<<fd, 300, 1400, 500, v, va>> :
        fd \in DeadSpaceO2Choices, v \in AirFlowChoices,
        va \in AlveolarFlowChoices}

(* One step of a coupled loop: lung mechanics compute_derivatives, then    *)
(* lung gas transfer compute_derivatives with the phase of its outputs.    *)
(* args = <<b, Ti, phase, c>>.                                             *)
LungThenGasTransfer ==
    /\ Len(lung_out) < MaxLungCalls
    /\ lung' = AfterChestWall(lung, lung_t, lung_h)
    /\ lung_out' = Append(lung_out, LungOutputs(lung', lung_t))
    /\ lung_t' = lung_t + lung_h
    /\ \E c \in GasTransferInputs :
         ev' = [name |-> GasTransferCallName,
                args |-> <<lung'.b, lung'.Ti, phases(lung'), c>>,
                ret |-> LungGasTransfer_compute_derivatives(
                            GasTransferConstructed, c, phases(lung'))]
    /\ UNCHANGED lung_h
    /\ UNCHANGED <<simvars, valvevars, delayvars, objvars>>

NextGasPhase == LungThenGasTransfer

SpecGasPhase == InitLung /\ [][NextGasPhase]_vars

GasTransferCalled == ev.name = GasTransferCallName

(* Lung mechanics is in inspiration while the cycle time has not passed Ti *)
MechanicsInInspiration == ev.args[1] <= ev.args[2]

(* The phase passed is the one lung mechanics put in its outputs *)
PhasePassedIsLungOutput ==
    GasTransferCalled =>
        /\ ev.args[3] = lung_out[Len(lung_out)].phase
        /\ ev.args[3] \in {1, -1}
        /\ ev.args[1] = lung_out[Len(lung_out)].b

InspirationAtBoundary ==
    /\ GasTransferCalled
    /\ ev.args[1] = ev.args[2]
    /\ ev.ret = InspirationBalance(GasTransferConstructed, ev.args[4])

=============================================================================
